---- MODULE Spec2Model ----
(***************************************************************************)
(* Model of AnalyzeCANView, the analysis coordinator of the packet viewer  *)
(* (src/scapy_packet_viewer/custom_views/analyze_can_view/                 *)
(* analyze_can_view.py).  The main thread runs the urwid handlers          *)
(* update_packets and rerun_analysis; every started analysis owns a worker *)
(* process (_run_analysis) and a supervising thread (_wait_for_analysis).  *)
(* Handlers of the main thread are atomic, workers and supervising threads *)
(* interleave with them step by step.  _update_views only writes widgets:  *)
(* the status line it would write is the operator StatusText.  The save    *)
(* button (_save) writes to a small file system.  The pure functions of    *)
(* utils.py are operators; a function under study is applied to an input   *)
(* held in the variable call and its value is stored in ret.               *)
(***************************************************************************)
EXTENDS Integers, Sequences, FiniteSets, TLC

\* ---------------------------------------------------------------- bounds
MaxId == 2          \* CAN identifiers 1..MaxId
MaxFrames == 2      \* frames captured per identifier
MaxJobs == 2        \* analyses started in one behaviour
MaxLen == 2         \* declared frame lengths 1..MaxLen (SpecJob)
MaxSaveJobs == 1    \* analyses started in one behaviour of SpecSave
MaxBodies == 4      \* bodies passed to a bit statistic
MaxCorrBodies == 3  \* bodies passed to the bit flip correlation
MaxCorrBits == 3    \* sizes passed to the bit flip correlation
MaxSignals == 2     \* signals of a message passed to the layout functions
MaxStates == 3      \* states of an action of the button bar
MaxExecutions == 6  \* executions of one action in one behaviour
MaxBits == 2        \* bit size of the bodies passed to a bit statistic
MaxPayload == 8     \* payload bytes of a packed frame
MaxText == 3        \* characters of the text of a DecimalEdit
MaxFlipFrames == 3  \* frames passed to bit_flips_for_correlation
MaxFlipBits == 2    \* bits of a frame passed to bit_flips_for_correlation
MaxSampleBlocks == 340  \* blocks of 200 bodies passed to the correlation

Identifiers == 1..MaxId
Jobs == 1..MaxJobs

\* The capture of an identifier grows frame by frame.  A packet is modelled
\* by its declared length: the last frame of the capture differs in length
\* from the frames before it.
Capture == [i \in 1..MaxFrames |-> IF i < MaxFrames THEN 1 ELSE 2]

\* The packet lists (frame snapshots) a focus call supplies: the capture
\* before and after its last frame arrived.
PacketLists == {SubSeq(Capture, 1, n) : n \in (MaxFrames - 1)..MaxFrames}

\* Every packet list of at most MaxFrames frames of length 1..MaxLen, the
\* empty one included: the inputs of the single-job specification SpecJob.
AnyPacketLists == UNION {[1..n -> 1..MaxLen] : n \in 0..MaxFrames}

\* ----------------------------------------------------------- data types
\* Optional values are sequences of length 0 (None) or 1.
None == <<>>
Data(id, pkts) == [identifier |-> id, packets |-> pkts]
Success == [tag |-> "Success", reason |-> ""]
Error(r) == [tag |-> "Error", reason |-> r]
AnalysisResult(pkts, res) == [packets |-> pkts, result |-> res]

VARIABLES
    current_data,   \* self._current_data: None or <<Data>>
    process,        \* self._process: 0 (None) or the job whose Process it is
    result_cache,   \* self._result_cache: dict identifier -> AnalysisResult
    nJobs,          \* number of analyses started so far
    jobData,        \* job -> the data argument of its process and thread
    proc,           \* job -> state of its worker process
    queue,          \* job -> content of its result_queue
    thread,         \* job -> position of its supervising thread
    emitted,        \* what the thread that returned last emitted to the main thread
    invoked,        \* job -> revdbc.analyze_identifier was called
    origin,         \* job -> the operation that started it
    fate,           \* job -> how it was cancelled or superseded, if it was
    focusedAway,    \* job -> another identifier was focused while it ran
    files,          \* the file system: path -> None or <<content>>
    notification,   \* what the last _save reported
    call,           \* the function applied in SpecBits and its arguments
    ret,            \* None or <<the value the function returned>>
    obj             \* the button bar under study in SpecButtons: its actions and
                    \* the variable their callbacks set

\* invoked, origin, fate and focusedAway record the history of a job for
\* as long as its supervising thread runs; they are cleared, with the
\* job's data, when the thread returns.
mainVars == <<current_data, process, result_cache>>
jobVars == <<nJobs, jobData, proc, queue, thread, emitted, invoked, origin>>
otherVars == <<files, notification, call, ret, obj>>
idleVars == <<mainVars, jobVars, fate, focusedAway, files, notification>>
vars == <<current_data, process, result_cache, nJobs, jobData, proc, queue,
          thread, emitted, invoked, origin, fate, focusedAway,
          files, notification, call, ret, obj>>

\* ------------------------------------------------------------- helpers
\* Process.is_alive(): the worker runs, or has posted and not yet exited.
IsAlive(s) == s \in {"running", "posted"}

\* AnalyzeCANView._analysis_running
_analysis_running(p, pr) == p # 0 /\ IsAlive(pr[p])

\* (mutation of DictPut: the assignment drops the other keys)
DictPut_reset(d, k, v) == [i \in {k} |-> v]

\* dict assignment d[k] = v
DictPut(d, k, v) == [i \in DOMAIN d \cup {k} |-> IF i = k THEN v ELSE d[i]]

\* set(packet.length for packet in data.packets)
Sizes(pkts) == {pkts[i] : i \in DOMAIN pkts}

\* (mutation of SizesOk: only more than one size is rejected)
SizesOk_many(pkts) == Cardinality(Sizes(pkts)) <= 1

\* the length check of _run_analysis: len(sizes) != 1 raises
SizesOk(pkts) == Cardinality(Sizes(pkts)) = 1

\* (mutation of StatusTextOf: the packet lists are not compared)
StatusTextOf_fresh(cd, p, pr, cache) ==
    IF cd = None THEN "No CAN packet selected."
    ELSE IF _analysis_running(p, pr) THEN "Analysis Running..."
    ELSE IF cd[1].identifier \notin DOMAIN cache THEN "<unknown state>"
    ELSE IF cache[cd[1].identifier].result.tag = "Success"
         THEN "Analysis Done" ELSE "Analysis Failed"

\* The status line computed by _update_views.
StatusTextOf(cd, p, pr, cache) ==
    IF cd = None THEN "No CAN packet selected."
    ELSE IF _analysis_running(p, pr) THEN "Analysis Running..."
    ELSE IF cd[1].identifier \notin DOMAIN cache THEN "<unknown state>"
    ELSE LET cached_result == cache[cd[1].identifier]
             obsolete == cached_result.packets # cd[1].packets
         IN  IF cached_result.result.tag = "Success"
             THEN (IF obsolete THEN "Analysis Done (obsolete)"
                               ELSE "Analysis Done")
             ELSE (IF obsolete THEN "Analysis Failed (obsolete)"
                               ELSE "Analysis Failed")

StatusText == StatusTextOf(current_data, process, proc, result_cache)

\* (mutation of _abort_analysis: the running process is left alone)
_abort_analysis_skipped(pr, p) == pr

\* _abort_analysis: terminate() and join() the process in self._process.
_abort_analysis(pr, p) ==
    IF p # 0 /\ IsAlive(pr[p]) THEN [pr EXCEPT ![p] = "dead"] ELSE pr

\* ---------------------------------------------------------------- Init
\* The paths a save can name: one is taken by a file that is there from
\* the start, the others are free.
TakenPath == 0
FreePath == 1
Paths == {TakenPath, FreePath}

\* File contents: the DBC dump of the message of an identifier is the
\* identifier; Foreign is the content of the file that is there from the
\* start, Blank that of a file created and never written.
Foreign == 0
Blank == -1

InitFiles == [p \in Paths |-> IF p = TakenPath THEN <<Foreign>> ELSE None]

\* No function is under study.
NoCall == [fn |-> "none", bodies |-> <<>>, size |-> 0]

\* No button bar is under study.
NoObject == [actions |-> <<>>, global_var |-> 0]

InitOther ==
    /\ files = InitFiles
    /\ notification = "none"
    /\ call = NoCall
    /\ ret = None
    /\ obj = NoObject

Init ==
    /\ InitOther
    /\ current_data = None
    /\ process = 0
    /\ result_cache = <<>>
    /\ nJobs = 0
    /\ jobData = [j \in Jobs |-> None]
    /\ proc = [j \in Jobs |-> "unstarted"]
    /\ queue = [j \in Jobs |-> <<>>]
    /\ thread = [j \in Jobs |-> "unstarted"]
    /\ emitted = "none"
    /\ invoked = [j \in Jobs |-> FALSE]
    /\ origin = [j \in Jobs |-> "none"]
    /\ fate = [j \in Jobs |-> "none"]
    /\ focusedAway = [j \in Jobs |-> FALSE]

\* --------------------------------------------------------- main thread
\* The jobs whose supervising thread has not returned yet.
Pending == {j \in Jobs : thread[j] = "started"}

\* The history of the pending jobs after a start on data: the job whose
\* live worker the start terminates is "restarted"; a pending job for the
\* same identifier whose worker is dead already is "superseded".
FateAfterStart(data) ==
    [j \in Jobs |->
        IF j \notin Pending \/ fate[j] # "none" THEN fate[j]
        ELSE IF j = process /\ IsAlive(proc[j]) THEN "restarted"
        ELSE IF jobData[j] # None /\ data # None
                /\ jobData[j][1].identifier = data[1].identifier
             THEN "superseded"
        ELSE "none"]

\* (mutation of start_data: the packets of the cache entry are analysed
\* again)
start_data_cached(cd, cache) ==
    IF cd # None /\ cd[1].identifier \in DOMAIN cache
    THEN <<Data(cd[1].identifier, cache[cd[1].identifier].packets)>>
    ELSE cd

\* data = self._current_data, the first statement of _start_analysis
start_data(cd, cache) == cd

\* _start_analysis: abort the running process, then start a new process
\* and a new supervising thread on the data read from self._current_data.
_start_analysis(data, by) ==
    LET j == nJobs + 1 IN
    /\ nJobs < MaxJobs
    /\ nJobs' = j
    /\ proc' = [_abort_analysis(proc, process) EXCEPT ![j] = "running"]
    /\ process' = j
    /\ jobData' = [jobData EXCEPT ![j] = data]
    /\ thread' = [thread EXCEPT ![j] = "started"]
    /\ origin' = [origin EXCEPT ![j] = by]
    /\ fate' = FateAfterStart(data)
    /\ UNCHANGED <<queue, emitted, invoked>>

\* (mutation of update_packets_CAN: a cached Error counts as no entry)
update_packets_CAN_retry(id, pkts) ==
    LET data == <<Data(id, pkts)>> IN
    /\ current_data' = data
    /\ IF id \notin DOMAIN result_cache \/ result_cache[id].result.tag = "Error"
       THEN _start_analysis(start_data(data, result_cache), "focus")
       ELSE UNCHANGED <<process, fate>> /\ UNCHANGED jobVars
    /\ focusedAway' =
         IF /\ _analysis_running(process, proc)
            /\ jobData[process] # None
            /\ jobData[process][1].identifier # id
         THEN [focusedAway EXCEPT ![process] = TRUE] ELSE focusedAway
    /\ UNCHANGED result_cache
    /\ UNCHANGED otherVars

\* update_packets with a CAN packet focused: focus(identifier, packets).
update_packets_CAN(id, pkts) ==
    LET data == <<Data(id, pkts)>> IN
    /\ current_data' = data
    /\ IF id \notin DOMAIN result_cache
       THEN _start_analysis(start_data(data, result_cache), "focus")
       ELSE UNCHANGED <<process, fate>> /\ UNCHANGED jobVars
    /\ focusedAway' =
         IF /\ _analysis_running(process, proc)
            /\ jobData[process] # None
            /\ jobData[process][1].identifier # id
         THEN [focusedAway EXCEPT ![process] = TRUE] ELSE focusedAway
    /\ UNCHANGED result_cache
    /\ UNCHANGED otherVars

\* update_packets with a packet that is no CAN packet: cancel().
update_packets_other ==
    /\ proc' = _abort_analysis(proc, process)
    /\ fate' = IF _analysis_running(process, proc)
               THEN [fate EXCEPT ![process] = "cancelled"] ELSE fate
    /\ current_data' = None
    /\ UNCHANGED <<process, result_cache, focusedAway>>
    /\ UNCHANGED <<nJobs, jobData, queue, thread, emitted, invoked, origin>>
    /\ UNCHANGED otherVars

update_packets ==
    \/ \E id \in Identifiers, pkts \in PacketLists : update_packets_CAN(id, pkts)
    \/ update_packets_other

\* (mutation of rerun_analysis: the running check is missing)
rerun_analysis_forced ==
    /\ _start_analysis(start_data(current_data, result_cache), "rerun")
    /\ UNCHANGED <<current_data, result_cache, focusedAway>>
    /\ UNCHANGED otherVars

\* The callback of the "Rerun Analysis" button: rerun().
rerun_analysis ==
    /\ IF ~ _analysis_running(process, proc)
       THEN _start_analysis(start_data(current_data, result_cache), "rerun")
       ELSE UNCHANGED <<process, fate>> /\ UNCHANGED jobVars
    /\ UNCHANGED <<current_data, result_cache, focusedAway>>
    /\ UNCHANGED otherVars

\* ------------------------------------------------------ worker process
\* _run_analysis: a missing data argument and differing packet sizes raise
\* before the analysis function is called; otherwise it is called and
\* returns or raises.  The outcome is posted to the result queue.
run_analysis(j) ==
    /\ proc[j] = "running"
    /\ IF jobData[j] = None
       THEN /\ queue' = [queue EXCEPT ![j] = <<Error("no data")>>]
            /\ UNCHANGED invoked
       ELSE IF ~ SizesOk(jobData[j][1].packets)
       THEN /\ queue' = [queue EXCEPT ![j] = <<Error("packet sizes differ")>>]
            /\ UNCHANGED invoked
       ELSE /\ invoked' = [invoked EXCEPT ![j] = TRUE]
            /\ \E res \in {Success, Error("analysis raised")} :
                   queue' = [queue EXCEPT ![j] = <<res>>]
    /\ proc' = [proc EXCEPT ![j] = "posted"]
    /\ UNCHANGED mainVars
    /\ UNCHANGED <<nJobs, jobData, thread, emitted, origin, fate, focusedAway>>
    /\ UNCHANGED otherVars

\* The worker has flushed its queue and exits.
run_analysis_exit(j) ==
    /\ proc[j] = "posted"
    /\ proc' = [proc EXCEPT ![j] = "dead"]
    /\ UNCHANGED mainVars
    /\ UNCHANGED <<nJobs, jobData, queue, thread, emitted, invoked, origin>>
    /\ UNCHANGED <<fate, focusedAway>>
    /\ UNCHANGED otherVars

\* The worker dies before it posts anything (killed from outside, or a
\* fault in native code that no except clause sees).
run_analysis_crash(j) ==
    /\ proc[j] = "running"
    /\ proc' = [proc EXCEPT ![j] = "dead"]
    /\ UNCHANGED mainVars
    /\ UNCHANGED <<nJobs, jobData, queue, thread, emitted, invoked, origin>>
    /\ UNCHANGED <<fate, focusedAway>>
    /\ UNCHANGED otherVars

\* --------------------------------------------------- supervising thread
\* The thread of job j returns: its data and its history are released.
Release(j) ==
    /\ jobData' = [jobData EXCEPT ![j] = None]
    /\ invoked' = [invoked EXCEPT ![j] = FALSE]
    /\ origin' = [origin EXCEPT ![j] = "none"]
    /\ fate' = [fate EXCEPT ![j] = "none"]
    /\ focusedAway' = [focusedAway EXCEPT ![j] = FALSE]

\* (mutation of wait_for_analysis: the thread does not join the process)
wait_for_analysis_nojoin(j) ==
    /\ thread[j] = "started"
    /\ thread' = [thread EXCEPT ![j] = "ended"]
    /\ IF jobData[j] = None
       THEN /\ emitted' = "none"
            /\ UNCHANGED <<queue, result_cache>>
       ELSE IF queue[j] # <<>>
       THEN /\ queue' = [queue EXCEPT ![j] = Tail(queue[j])]
            /\ emitted' = "update"
            /\ result_cache' =
                 DictPut(result_cache, jobData[j][1].identifier,
                         AnalysisResult(jobData[j][1].packets, Head(queue[j])))
       ELSE /\ emitted' = "update"
            /\ UNCHANGED <<queue, result_cache>>
    /\ Release(j)
    /\ UNCHANGED <<current_data, process, nJobs, proc>>
    /\ UNCHANGED otherVars

\* _wait_for_analysis.  data.focused_packet raises for data None, which
\* ends the thread.  self._process.join() waits for the process that
\* self._process names when the thread evaluates it: its own process or
\* one started since.  result_queue.get(False) then yields the posted
\* result, which is written to the cache (after the popup for an Error),
\* or raises Empty.  Either way the _update_views call is emitted.  Only
\* the cache write touches state shared with other threads, so the steps
\* of one thread are taken as one.
wait_for_analysis(j) ==
    /\ thread[j] = "started"
    /\ thread' = [thread EXCEPT ![j] = "ended"]
    /\ IF jobData[j] = None
       THEN /\ emitted' = "none"
            /\ UNCHANGED <<queue, result_cache>>
       ELSE /\ \E target \in j..process : ~ IsAlive(proc[target])
            /\ IF queue[j] # <<>>
               THEN LET identifier == jobData[j][1].identifier
                        result == Head(queue[j])
                    IN  /\ queue' = [queue EXCEPT ![j] = Tail(queue[j])]
                        /\ emitted' = IF result.tag = "Error"
                                      THEN "popup, update" ELSE "update"
                        /\ result_cache' =
                             DictPut(result_cache, identifier,
                                     AnalysisResult(jobData[j][1].packets, result))
               ELSE /\ emitted' = "update"
                    /\ UNCHANGED <<queue, result_cache>>
    /\ Release(j)
    /\ UNCHANGED <<current_data, process, nJobs, proc>>
    /\ UNCHANGED otherVars

\* The steps of _wait_for_analysis taken one by one (SpecRelay).  The
\* thread of job j has joined the process and result_queue.get(False)
\* has returned the posted result: the thread is in the block that ends
\* with the cache write.  The result it holds stays recorded in queue[j],
\* which nothing else reads.
wait_for_analysis_get(j) ==
    /\ thread[j] = "started"
    /\ jobData[j] # None
    /\ \E target \in j..process : ~ IsAlive(proc[target])
    /\ queue[j] # <<>>
    /\ thread' = [thread EXCEPT ![j] = "got"]
    /\ UNCHANGED <<current_data, process, result_cache, nJobs, jobData, proc,
                   queue, emitted, invoked, origin, fate, focusedAway>>
    /\ UNCHANGED otherVars

\* The thread of job j emits the popup for an Error, writes the cache
\* entry, emits the _update_views call and returns.
wait_for_analysis_commit(j) ==
    /\ thread[j] = "got"
    /\ thread' = [thread EXCEPT ![j] = "ended"]
    /\ LET identifier == jobData[j][1].identifier
           result == Head(queue[j])
       IN  /\ queue' = [queue EXCEPT ![j] = Tail(queue[j])]
           /\ emitted' = IF result.tag = "Error"
                         THEN "popup, update" ELSE "update"
           /\ result_cache' =
                DictPut(result_cache, identifier,
                        AnalysisResult(jobData[j][1].packets, result))
    /\ Release(j)
    /\ UNCHANGED <<current_data, process, nJobs, proc>>
    /\ UNCHANGED otherVars

\* The thread of job j returns without a result: data is None, or the
\* queue is empty.
wait_for_analysis_empty(j) ==
    /\ jobData[j] = None \/ queue[j] = <<>>
    /\ wait_for_analysis(j)

\* ------------------------------------------------------------ save
\* _get_message: None while nothing is focused or the analysis runs; the
\* message of the focused identifier if its cached result is a Success,
\* None if it is an Error.  Without a cache entry cached_result is None
\* and cached_result.result raises AttributeError.
_get_message(cd, p, pr, cache) ==
    IF cd = None \/ _analysis_running(p, pr)
    THEN [raised |-> FALSE, message |-> None]
    ELSE IF cd[1].identifier \notin DOMAIN cache
    THEN [raised |-> TRUE, message |-> None]
    ELSE IF cache[cd[1].identifier].result.tag = "Success"
    THEN [raised |-> FALSE, message |-> <<cd[1].identifier>>]
    ELSE [raised |-> FALSE, message |-> None]

\* (mutation of created_file: the file is removed when the dump fails)
created_file_removed == None

\* with open(save_path, "x"): pass leaves an empty file, which stays when
\* dump_file raises.
created_file == <<Blank>>

\* (mutation of save: the file is opened for writing, not created)
save_overwrite(save_path) ==
    LET m == _get_message(current_data, process, proc, result_cache) IN
    /\ IF m.raised
       THEN notification' = "AttributeError" /\ UNCHANGED files
       ELSE IF m.message = None
       THEN notification' = "No message to be saved." /\ UNCHANGED files
       ELSE \/ /\ files' = [files EXCEPT ![save_path] = m.message]
               /\ notification' = "File written."
            \/ /\ files' = [files EXCEPT ![save_path] = created_file]
               /\ notification' = "Saving failed: dump raised"
            \/ notification' = "Saving failed: os error" /\ UNCHANGED files
    /\ UNCHANGED <<current_data, process, result_cache, nJobs, jobData, proc,
                   queue, thread, emitted, invoked, origin, fate, focusedAway,
                   call, ret, obj>>

\* _save on the resolved path save_path.  An AttributeError of _get_message
\* leaves the handler.  With a message to save: open(save_path, "x")
\* raises if the file exists; otherwise the file is created and the dump
\* is written to it, or the dump raises and the file stays blank, or
\* makedirs or open raise and nothing is created.  Every exception of
\* that part is reported as "Saving failed: " followed by its text.
save(save_path) ==
    LET m == _get_message(current_data, process, proc, result_cache) IN
    /\ IF m.raised
       THEN notification' = "AttributeError" /\ UNCHANGED files
       ELSE IF m.message = None
       THEN notification' = "No message to be saved." /\ UNCHANGED files
       ELSE IF files[save_path] # None
       THEN notification' = "Saving failed: file exists" /\ UNCHANGED files
       ELSE \/ /\ files' = [files EXCEPT ![save_path] = m.message]
               /\ notification' = "File written."
            \/ /\ files' = [files EXCEPT ![save_path] = created_file]
               /\ notification' = "Saving failed: dump raised"
            \/ notification' = "Saving failed: os error" /\ UNCHANGED files
    /\ UNCHANGED <<current_data, process, result_cache, nJobs, jobData, proc,
                   queue, thread, emitted, invoked, origin, fate, focusedAway,
                   call, ret, obj>>

\* (mutation of _save: a successful save drops the focus and the cache)
_save_forgetful ==
    \E save_path \in Paths :
        /\ _get_message(current_data, process, proc, result_cache).message # None
        /\ files[save_path] = None
        /\ files' = [files EXCEPT ![save_path] =
                        _get_message(current_data, process, proc, result_cache).message]
        /\ notification' = "File written."
        /\ current_data' = None
        /\ result_cache' = <<>>
        /\ UNCHANGED <<process, nJobs, jobData, proc, queue, thread, emitted,
                       invoked, origin, fate, focusedAway, call, ret, obj>>

\* The callback of the "Save" button on the path of the edit field.
_save == \E save_path \in Paths : save(save_path)

\* -------------------------------------------------------- utils.py
\* (bodies_np >> bit) & 1 for one body
BitOf(body, bit) == (body \div (2 ^ bit)) % 2

\* a ^ b for two bits
BitXor(a, b) == (a + b) % 2

\* np.sum of a sequence
RECURSIVE np_sum(_)
np_sum(seq) == IF seq = <<>> THEN 0 ELSE Head(seq) + np_sum(Tail(seq))

\* bits[1:] ^ bits[:-1]
AdjacentXor(bits) ==
    [i \in 1..(IF Len(bits) = 0 THEN 0 ELSE Len(bits) - 1) |->
        BitXor(bits[i + 1], bits[i])]

\* (mutation of SizeRefused: a size of 0 passes the lower check)
SizeRefused_negative(size) == size < 0 \/ size > 64

\* The size checks of the bit statistics: size < 1 and size > 64 raise
\* ValueError.
SizeRefused(size) == size < 1 \/ size > 64

\* (mutation of count_bit_flips: the set bits are counted, not the flips)
count_bit_flips_ones(bodies, size) ==
    IF SizeRefused(size)
    THEN [raised |-> "ValueError", tav |-> <<>>]
    ELSE [raised |-> "",
          tav |-> [k \in 1..size |->
                     np_sum([i \in 1..Len(bodies) |-> BitOf(bodies[i], k - 1)])]]

\* count_bit_flips: a size outside 1..64 raises ValueError; otherwise
\* tav[bit], for bit in 0..size-1, is the sum of the xor of the bit in
\* adjacent bodies.  Entry bit of the list is element bit + 1 of the
\* sequence.
count_bit_flips(bodies, size) ==
    IF SizeRefused(size)
    THEN [raised |-> "ValueError", tav |-> <<>>]
    ELSE [raised |-> "",
          tav |-> [k \in 1..size |->
                     LET bits == [i \in 1..Len(bodies) |-> BitOf(bodies[i], k - 1)]
                     IN  np_sum(AdjacentXor(bits))]]

\* The bodies a bit statistic is applied to: at most MaxBodies unsigned
\* values of MaxBits bits.
BodyLists == UNION {[1..n -> 0..(2 ^ MaxBits - 1)] : n \in 0..MaxBodies}

\* The sizes passed with them, among them sizes that are refused: -1 and
\* 0 below the range, 65 and 66 above it.
BitSizes == (-1..MaxBits) \cup {65, 66}

\* bcot_max_samples = 64 * 1024, the cap on the bodies considered
bcot_max_samples == 65536

\* (mutation of convolution_length: the number of bodies is not capped)
convolution_length_uncapped(n) ==
    IF n \div 200 > 64 THEN n \div 200 ELSE 64

\* convolution_length = max(min(bodies_np.shape[0], bcot_max_samples) // 200, 64)
convolution_length(n) ==
    LET capped == IF n < bcot_max_samples THEN n ELSE bcot_max_samples
    IN  IF capped \div 200 > 64 THEN capped \div 200 ELSE 64

\* b_t[col] = (b >> col) & 1 with b = bodies_np[1:] ^ bodies_np[:-1]: the
\* xor of two bodies is taken on the whole words, bit col of it is the
\* xor of bit col of the two bodies.
b_t(bodies, col) ==
    [i \in 1..(Len(bodies) - 1) |->
        BitXor(BitOf(bodies[i + 1], col), BitOf(bodies[i], col))]

\* np.convolve(a, v) in mode 'full' for v = np.ones(m): entry k sums the
\* entries of a under the window that ends at k; both arrays are uint8,
\* and so is the result.
np_convolve(a, m) ==
    [k \in 1..(Len(a) + m - 1) |->
        LET lo == IF k - m + 1 > 1 THEN k - m + 1 ELSE 1
            hi == IF k < Len(a) THEN k ELSE Len(a)
        IN  np_sum(SubSeq(a, lo, hi)) % 256]

\* The sum of the products of two series of the same length
RECURSIVE SumProd(_, _)
SumProd(x, y) ==
    IF x = <<>> THEN 0 ELSE Head(x) * Head(y) + SumProd(Tail(x), Tail(y))

\* (mutation of np_corrcoef: a series without variance correlates with 0)
np_corrcoef_zero(x, y) ==
    LET n == Len(x)
        sxx == n * SumProd(x, x) - np_sum(x) * np_sum(x)
        syy == n * SumProd(y, y) - np_sum(y) * np_sum(y)
        sxy == n * SumProd(x, y) - np_sum(x) * np_sum(y)
    IN  IF sxx = 0 \/ syy = 0
        THEN [nan |-> FALSE, sxy |-> 0, sxx |-> 1, syy |-> 1]
        ELSE [nan |-> FALSE, sxy |-> sxy, sxx |-> sxx, syy |-> syy]

\* np.corrcoef(x, y)[1][0]: the covariance of x and y over the root of the
\* product of their variances.  The float is kept as its three integer
\* sums, scaled by n * n: the value is sxy / sqrt(sxx * syy).  Without
\* variance in x or in y the quotient is 0 / 0, nan.
np_corrcoef(x, y) ==
    LET n == Len(x)
        sxx == n * SumProd(x, x) - np_sum(x) * np_sum(x)
        syy == n * SumProd(y, y) - np_sum(y) * np_sum(y)
        sxy == n * SumProd(x, y) - np_sum(x) * np_sum(y)
    IN  IF sxx = 0 \/ syy = 0
        THEN [nan |-> TRUE, sxy |-> 0, sxx |-> 0, syy |-> 0]
        ELSE [nan |-> FALSE, sxy |-> sxy, sxx |-> sxx, syy |-> syy]

\* c_t[row]: the flip series of bit row of the first bcot_max_samples
\* bodies under the moving sum
c_t(bodies, row) ==
    LET cut == IF Len(bodies) < bcot_max_samples
               THEN Len(bodies) ELSE bcot_max_samples
    IN  np_convolve(b_t(SubSeq(bodies, 1, cut), row),
                    convolution_length(Len(bodies)))

\* calculate_bit_flip_correlation: a size outside 1..64 raises ValueError;
\* with fewer than two bodies the flip series are empty and np.convolve
\* raises ValueError; otherwise entry row, for row in 0..size-2, is the
\* correlation of c_t[row] and c_t[row + 1].  Entry row of the list is
\* element row + 1 of the sequence.
calculate_bit_flip_correlation(bodies, size) ==
    IF SizeRefused(size)
    THEN [raised |-> "ValueError", bcot |-> <<>>]
    ELSE IF Len(bodies) < 2
    THEN [raised |-> "ValueError", bcot |-> <<>>]
    ELSE LET c == [row \in 0..(size - 1) |-> c_t(bodies, row)]
         IN  [raised |-> "",
              bcot |-> [k \in 1..(size - 1) |-> np_corrcoef(c[k - 1], c[k])]]

\* The bodies the correlation is applied to: at most MaxCorrBodies
\* unsigned values of three bits
CorrValues == 0..7
CorrBodyLists == UNION {[1..n -> CorrValues] : n \in 0..MaxCorrBodies}

\* The sizes passed with them, among them sizes that are refused
CorrSizes == (-1..MaxCorrBits) \cup {65, 66}

\* The call of calculate_bit_flip_correlation returns.
correlation_returns ==
    /\ ret = None
    /\ call.fn = "calculate_bit_flip_correlation"
    /\ ret' = <<calculate_bit_flip_correlation(call.bodies, call.size)>>
    /\ UNCHANGED <<idleVars, call, obj>>

\* The call of the function under study returns.
call_returns ==
    /\ ret = None
    /\ call.fn = "count_bit_flips"
    /\ ret' = <<count_bit_flips(call.bodies, call.size)>>
    /\ UNCHANGED <<current_data, process, result_cache, nJobs, jobData, proc,
                   queue, thread, emitted, invoked, origin, fate, focusedAway,
                   files, notification, call, obj>>

\* ------------------------------------------- message_layout_string.py
\* A string is the sequence of its characters.  A message is the record
\* of its length in bytes and of its signals; a signal is the record of
\* its start, length and byte_order, and is identified, as the Signal
\* object it is, by its place in message.signals.

\* The printable characters, chr(32) to chr(126); three of them are
\* written by their names.
Ascii ==
    <<" ", "!", "quote", "#", "$", "%", "&", "'", "(", ")", "*", "+", ",", "-",
      ".", "/", "0", "1", "2", "3", "4", "5", "6", "7", "8", "9", ":", ";",
      "<", "=", ">", "?", "@", "A", "B", "C", "D", "E", "F", "G", "H", "I",
      "J", "K", "L", "M", "N", "O", "P", "Q", "R", "S", "T", "U", "V", "W",
      "X", "Y", "Z", "[", "backslash", "]", "^", "_", "backtick", "a", "b", "c", "d", "e",
      "f", "g", "h", "i", "j", "k", "l", "m", "n", "o", "p", "q", "r", "s",
      "t", "u", "v", "w", "x", "y", "z", "{", "|", "}", "~">>

\* chr(n) for a printable character
chr(n) == Ascii[n - 31]

\* ord(c) of a printable character
ord(c) == CHOOSE n \in 32..126 : chr(n) = c

\* A local variable: Op applied to the value of e, which is computed once
Bind(e, Op(_)) == CHOOSE r \in {Op(x) : x \in {e}} : TRUE

\* n * c for a character c
Rep(c, n) == [i \in 1..n |-> c]

\* seq.count(c)
Count(seq, c) == Cardinality({i \in 1..Len(seq) : seq[i] = c})

\* The concatenation of the strings of a list
RECURSIVE Concat(_)
Concat(strs) == IF strs = <<>> THEN <<>> ELSE Head(strs) \o Concat(Tail(strs))

\* (mutation of get_signal_letter_mapping: the letter is not advanced)
get_signal_letter_mapping_same(message) ==
    [i \in 1..Len(message.signals) |-> chr(ord("a"))]

\* get_signal_letter_mapping: the signals of message.signals, in their
\* order, get chr(ord('a')), chr(ord('a') + 1), ...
get_signal_letter_mapping(message) ==
    [i \in 1..Len(message.signals) |-> chr(ord("a") + (i - 1))]

\* SignalTable.update: the rows of the table are the items of the mapping
\* sorted by letter; a row is given by its signal.
SignalTable_update(signal_letter_mapping) ==
    LET n == Len(signal_letter_mapping)
        Before(a, b) ==
            \/ ord(signal_letter_mapping[a]) < ord(signal_letter_mapping[b])
            \/ signal_letter_mapping[a] = signal_letter_mapping[b] /\ a < b
    IN  CHOOSE rows \in [1..n -> 1..n] :
            \A i, j \in 1..n : i < j => Before(rows[i], rows[j])

\* cantools.database.utils.start_bit
start_bit(signal) ==
    IF signal.byte_order = "big_endian"
    THEN 8 * (signal.start \div 8) + (7 - (signal.start % 8))
    ELSE signal.start

\* No letter is highlighted.
NoHighlight == "None"

\* The places in message.signals of the signals of one byte order
SignalsOfOrder(message, byte_order) ==
    SelectSeq([i \in 1..Len(message.signals) |-> i],
              LAMBDA i : message.signals[i].byte_order = byte_order)

\* (mutation of format_big: the tail is 'x', not the letter of the signal)
format_big_x(message, highlight) ==
    LET signal_letter_mapping == get_signal_letter_mapping(message)
        idx == SignalsOfOrder(message, "big_endian")
    IN  [k \in 1..Len(idx) |->
            LET signal == message.signals[idx[k]]
                signal_letter == signal_letter_mapping[idx[k]]
                dash == IF signal_letter = highlight THEN "=" ELSE "-"
            IN  Rep(" ", 3 * start_bit(signal)) \o <<"<">>
                    \o Rep(dash, 3 * signal.length - 2) \o <<"x">>]

\* format_big: one line per big endian signal
format_big(message, highlight) ==
    LET signal_letter_mapping == get_signal_letter_mapping(message)
        idx == SignalsOfOrder(message, "big_endian")
    IN  [k \in 1..Len(idx) |->
            LET signal == message.signals[idx[k]]
                signal_letter == signal_letter_mapping[idx[k]]
                dash == IF signal_letter = highlight THEN "=" ELSE "-"
            IN  Rep(" ", 3 * start_bit(signal)) \o <<"<">>
                    \o Rep(dash, 3 * signal.length - 2) \o <<signal_letter>>]

\* ''.join(formatted[i:i + 24][::-1] for i in range(0, len(formatted), 24))
ReverseChunks(formatted) ==
    [p \in 1..Len(formatted) |->
        LET base == 24 * ((p - 1) \div 24)
            last == IF base + 24 < Len(formatted) THEN base + 24
                    ELSE Len(formatted)
        IN  formatted[base + 1 + (last - p)]]

\* format_little: one line per little endian signal
format_little(message, highlight) ==
    LET signal_letter_mapping == get_signal_letter_mapping(message)
        idx == SignalsOfOrder(message, "little_endian")
    IN  [k \in 1..Len(idx) |->
            LET signal == message.signals[idx[k]]
                signal_letter == signal_letter_mapping[idx[k]]
                dash == IF signal_letter = highlight THEN "=" ELSE "-"
                end == signal.start + signal.length
                formatted == Rep(" ", 3 * signal.start) \o <<signal_letter>>
                                \o Rep(dash, 3 * signal.length - 2) \o <<"<">>
                padded == IF end % 8 # 0
                          THEN formatted \o Rep(" ", 3 * (8 - (end % 8)))
                          ELSE formatted
            IN  Bind(padded, LAMBDA line : ReverseChunks(line))]

\* The signal lines of format_byte_lines, padded to one length that is a
\* multiple of 24
SignalLines(message, highlight) ==
    Bind(format_big(message, highlight) \o format_little(message, highlight),
         LAMBDA signals :
            LET longest == CHOOSE l \in {Len(signals[i]) : i \in 1..Len(signals)} :
                               \A i \in 1..Len(signals) : Len(signals[i]) <= l
                length == IF longest % 24 # 0
                          THEN longest + (24 - (longest % 24)) ELSE longest
            IN  IF Len(signals) > 0
                THEN [i \in 1..Len(signals) |->
                         signals[i] \o Rep(" ", length - Len(signals[i]))]
                ELSE signals)

\* (mutation of UnionChar: the first character wins over an overlap)
UnionChar_first(chars, all_signal_letters) ==
    LET non_space_chars == SelectSeq(chars, LAMBDA c : c # " ")
    IN  IF Len(non_space_chars) = 0 THEN " " ELSE non_space_chars[1]

\* The character of the signals union line for one column of the signal
\* lines
UnionChar(chars, all_signal_letters) ==
    LET head == Count(chars, "<")
        dash == Count(chars, "-") + Count(chars, "=")
        tail == np_sum([k \in 1..Len(all_signal_letters) |->
                           Count(chars, all_signal_letters[k])])
        non_space_chars == SelectSeq(chars, LAMBDA c : c # " ")
    IN  IF head + dash + tail > 1 THEN "X"
        ELSE IF Len(non_space_chars) = 0 THEN " "
        ELSE non_space_chars[1]

\* The signals union line of format_byte_lines
signals_union(message, highlight) ==
    Bind(SignalLines(message, highlight), LAMBDA signals :
    Bind(get_signal_letter_mapping(message), LAMBDA all_signal_letters :
        [c \in 1..(IF Len(signals) = 0 THEN 0 ELSE Len(signals[1])) |->
            Bind([r \in 1..Len(signals) |-> signals[r][c]],
                 LAMBDA chars : UnionChar(chars, all_signal_letters))]))

\* The byte lines of format_byte_lines: the union line in pieces of 24,
\* and blank lines up to message.length
byte_lines(message, highlight) ==
    Bind(signals_union(message, highlight), LAMBDA union :
        LET used == (Len(union) + 23) \div 24
            unused_byte_lines == message.length - used
        IN  [i \in 1..used |->
                SubSeq(union, 24 * (i - 1) + 1,
                       IF 24 * i < Len(union) THEN 24 * i ELSE Len(union))]
            \o [i \in 1..(IF unused_byte_lines > 0 THEN unused_byte_lines ELSE 0)
                   |-> Rep(" ", 24)])

\* (mutation of Separator: no separator is drawn as '=')
Separator_bar(byte_line, k, all_signal_letters) ==
    LET first == byte_line[3 * k + 1]
        prev_byte == byte_line[3 * k]
    IN  IF k = 0 THEN "|"
        ELSE IF first \in {" ", "<", ">"}
                    \cup {all_signal_letters[j] : j \in 1..Len(all_signal_letters)}
        THEN "|"
        ELSE IF first = "X"
        THEN (IF prev_byte = "X" THEN "X"
              ELSE IF prev_byte = "-" THEN "-"
              ELSE "|")
        ELSE IF first = "=" THEN "|"
        ELSE "-"

\* The separator before the bit at byte_line[i:i + 3], i = 3 * k
Separator(byte_line, k, all_signal_letters) ==
    LET first == byte_line[3 * k + 1]
        prev_byte == byte_line[3 * k]
    IN  IF k = 0 THEN "|"
        ELSE IF first \in {" ", "<", ">"}
                    \cup {all_signal_letters[j] : j \in 1..Len(all_signal_letters)}
        THEN "|"
        ELSE IF first = "X"
        THEN (IF prev_byte = "X" THEN "X"
              ELSE IF prev_byte = "-" THEN "-"
              ELSE IF prev_byte = "=" THEN "="
              ELSE "|")
        ELSE IF first = "=" THEN "="
        ELSE "-"

\* A byte line with its bit separators
SeparatedLine(byte_line, all_signal_letters) ==
    Concat([k \in 1..8 |->
               <<Separator(byte_line, k - 1, all_signal_letters)>>
                   \o SubSeq(byte_line, 3 * (k - 1) + 1, 3 * k)])
        \o <<"|">>

\* str(n) of a natural number
RECURSIVE str(_)
str(n) == IF n < 10 THEN <<chr(ord("0") + n)>>
          ELSE str(n \div 10) \o <<chr(ord("0") + (n % 10))>>

\* s.rjust(width, ' ')
rjust(s, width) == Rep(" ", width - Len(s)) \o s

\* number_width = len(str(len(lines))) + 4
number_width(lines) == Len(str(Len(lines))) + 4

\* format_byte_lines: the byte lines with separators and byte numbers
format_byte_lines(message, highlight) ==
    Bind(byte_lines(message, highlight), LAMBDA lines :
    Bind(get_signal_letter_mapping(message), LAMBDA all_signal_letters :
        [i \in 1..Len(lines) |->
            rjust(str(i - 1), number_width(lines) - 1) \o <<" ">>
                \o Bind(lines[i], LAMBDA byte_line :
                        SeparatedLine(byte_line, all_signal_letters))]))

\* '+---+---+---+---+---+---+---+---+'
Rule == Concat([k \in 1..8 |-> <<"+", "-", "-", "-">>]) \o <<"+">>

\* add_horizontal_lines: a rule after every byte line
add_horizontal_lines(lines, width) ==
    [i \in 1..(2 * Len(lines)) |->
        IF i % 2 = 1 THEN lines[(i + 1) \div 2] ELSE Rep(" ", width) \o Rule]

\* add_header_lines: the bit numbers and a rule before the lines
add_header_lines(lines, width) ==
    << rjust(<<"B", "i", "t">>, width)
           \o Concat([k \in 1..8 |-> <<" ", " ", chr(ord("0") + (8 - k))>>
                          \o (IF k < 8 THEN <<" ">> ELSE <<>>)]),
       Rep(" ", width) \o Rule >> \o lines

\* add_y_axis_name: the axis column before the lines
add_y_axis_name(lines) ==
    LET number_of_matrix_lines == Len(lines) - 3
        filled == IF number_of_matrix_lines < 5
                  THEN lines \o [i \in 1..(5 - number_of_matrix_lines) |->
                                    Rep(" ", 5)]
                  ELSE lines
        at == 4 + ((number_of_matrix_lines - 4) \div 2 - 1)
        start_index == IF at > 0 THEN at ELSE 0
        rest == Len(filled) - start_index - 4
        axis_lines == [i \in 1..start_index |-> <<" ", " ">>]
                          \o << <<" ", "B">>, <<" ", "y">>,
                                <<" ", "t">>, <<" ", "e">> >>
                          \o [i \in 1..(IF rest > 0 THEN rest ELSE 0) |->
                                 <<" ", " ">>]
        both == IF Len(axis_lines) < Len(filled)
                THEN Len(axis_lines) ELSE Len(filled)
    IN  [i \in 1..both |-> axis_lines[i] \o filled[i]]

\* line.rstrip()
RECURSIVE rstrip(_)
rstrip(line) ==
    IF line # <<>> /\ line[Len(line)] = " "
    THEN rstrip(SubSeq(line, 1, Len(line) - 1)) ELSE line

\* '\n'.join(lines)
RECURSIVE join(_)
join(lines) ==
    IF lines = <<>> THEN <<>>
    ELSE IF Len(lines) = 1 THEN lines[1]
    ELSE lines[1] \o <<"\n">> \o join(Tail(lines))

\* message_layout_string
message_layout_string(message, highlight) ==
    Bind(format_byte_lines(message, highlight), LAMBDA lines0 :
    Bind(number_width(lines0), LAMBDA width :
    Bind(add_horizontal_lines(lines0, width), LAMBDA lines1 :
    Bind(add_header_lines(lines1, width), LAMBDA lines2 :
    Bind(add_y_axis_name(lines2), LAMBDA lines3 :
    Bind([i \in 1..Len(lines3) |-> rstrip(lines3[i])], LAMBDA stripped :
        join(stripped)))))))

\* The messages the layout functions are applied to: one or two bytes
\* with at most MaxSignals signals that lie inside the message and may
\* overlap.
MessageLengths == {1, 2}
SignalLengths == {1, 3, 8}
Signals(length) ==
    {signal \in [start : {s \in 0..(8 * length - 1) : s % 8 \in {0, 7}},
                 length : SignalLengths,
                 byte_order : {"big_endian", "little_endian"}] :
        start_bit(signal) + signal.length <= 8 * length}
Messages ==
    UNION {[length : {length},
            signals : UNION {[1..n -> Signals(length)] : n \in 0..MaxSignals}] :
           length \in MessageLengths}

\* The highlights passed with them
Highlights == {NoHighlight, "a"}

\* The call of get_signal_letter_mapping returns.
letters_return ==
    /\ ret = None
    /\ call.fn = "get_signal_letter_mapping"
    /\ ret' = <<get_signal_letter_mapping(call.message)>>
    /\ UNCHANGED <<idleVars, call, obj>>

\* The call of message_layout_string returns.
layout_returns ==
    /\ ret = None
    /\ call.fn = "message_layout_string"
    /\ ret' = <<message_layout_string(call.message, call.highlight)>>
    /\ UNCHANGED <<idleVars, call, obj>>

\* ------------------------------------------------------ button_bar.py
\* Action and ButtonBar, as test_button_bar.py uses them.  An action has
\* n labels and n callbacks and is in one of its n states; the label of
\* state i of the action under a key is the pair of the key and i, and
\* callback i sets global_var to i + 1 (fun1, fun2, fun3 of the tests).
\* init and executed record, for each action, the state it was built in
\* and the number of its executions.

\* The keys of the button bar
Keys == {"f1", "f2"}

\* The label of state i of the action under a key
Label(key, i) == <<key, i>>

\* Action(labels, callbacks, state_index) for n labels and n callbacks
Action(key, n, state_index) ==
    [n |-> n, state_index |-> state_index, text |-> Label(key, state_index),
     init |-> state_index, executed |-> 0]

\* (mutation of execute: the last state is never left)
execute_saturating(key, action) ==
    LET next == IF action.state_index + 1 < action.n
                THEN action.state_index + 1 ELSE action.state_index
    IN  [action |-> [action EXCEPT !.state_index = next,
                                   !.text = Label(key, next),
                                   !.executed = @ + 1],
         global_var |-> action.state_index + 1]

\* Action.execute: the callback of the current state is called, then the
\* action is in the next of its n states, cyclically, and shows the label
\* of that state.
execute(key, action) ==
    LET next == (action.state_index + 1) % action.n
    IN  [action |-> [action EXCEPT !.state_index = next,
                                   !.text = Label(key, next),
                                   !.executed = @ + 1],
         global_var |-> action.state_index + 1]

\* ButtonBar.keypress(size, key): the action under the key is executed
\* and its button shows the text of the action.
keypress(key) ==
    /\ key \in DOMAIN obj.actions
    /\ obj.actions[key].executed < MaxExecutions
    /\ LET done == execute(key, obj.actions[key])
       IN  obj' = [actions |-> [obj.actions EXCEPT ![key] = done.action],
                   global_var |-> done.global_var]
    /\ UNCHANGED <<idleVars, call, ret>>

\* -------------------------------------------------------- specification
Next ==
    \/ update_packets
    \/ rerun_analysis
    \/ \E j \in Jobs : run_analysis(j)
    \/ \E j \in Jobs : run_analysis_exit(j)
    \/ \E j \in Jobs : run_analysis_crash(j)
    \/ \E j \in Jobs : wait_for_analysis(j)

Spec == Init /\ [][Next]_vars

\* A single job in isolation: focus(id, pkts) on any packet list has just
\* started job 1; its worker and its supervising thread run.
InitJob ==
    \E id \in Identifiers, pkts \in AnyPacketLists :
        /\ InitOther
        /\ current_data = <<Data(id, pkts)>>
        /\ process = 1
        /\ result_cache = <<>>
        /\ nJobs = 1
        /\ jobData = [j \in Jobs |-> IF j = 1 THEN <<Data(id, pkts)>> ELSE None]
        /\ proc = [j \in Jobs |-> IF j = 1 THEN "running" ELSE "unstarted"]
        /\ queue = [j \in Jobs |-> <<>>]
        /\ thread = [j \in Jobs |-> IF j = 1 THEN "started" ELSE "unstarted"]
        /\ emitted = "none"
        /\ invoked = [j \in Jobs |-> FALSE]
        /\ origin = [j \in Jobs |-> IF j = 1 THEN "focus" ELSE "none"]
        /\ fate = [j \in Jobs |-> "none"]
        /\ focusedAway = [j \in Jobs |-> FALSE]

NextJob ==
    \/ \E j \in Jobs : run_analysis(j)
    \/ \E j \in Jobs : run_analysis_exit(j)
    \/ \E j \in Jobs : run_analysis_crash(j)
    \/ \E j \in Jobs : wait_for_analysis(j)

SpecJob == InitJob /\ [][NextJob]_vars

\* The view with its save button, for at most MaxSaveJobs analyses.
NextSave ==
    \/ update_packets /\ nJobs' <= MaxSaveJobs
    \/ rerun_analysis /\ nJobs' <= MaxSaveJobs
    \/ \E j \in Jobs : run_analysis(j)
    \/ \E j \in Jobs : run_analysis_exit(j)
    \/ \E j \in Jobs : run_analysis_crash(j)
    \/ \E j \in Jobs : wait_for_analysis(j)
    \/ _save

SpecSave == Init /\ [][NextSave]_vars

\* A bit statistic of utils.py applied to one input.
InitBits ==
    \E bodies \in BodyLists, size \in BitSizes :
        /\ call = [fn |-> "count_bit_flips", bodies |-> bodies, size |-> size]
        /\ ret = None
        /\ obj = NoObject
        /\ files = InitFiles
        /\ notification = "none"
        /\ current_data = None
        /\ process = 0
        /\ result_cache = <<>>
        /\ nJobs = 0
        /\ jobData = [j \in Jobs |-> None]
        /\ proc = [j \in Jobs |-> "unstarted"]
        /\ queue = [j \in Jobs |-> <<>>]
        /\ thread = [j \in Jobs |-> "unstarted"]
        /\ emitted = "none"
        /\ invoked = [j \in Jobs |-> FALSE]
        /\ origin = [j \in Jobs |-> "none"]
        /\ fate = [j \in Jobs |-> "none"]
        /\ focusedAway = [j \in Jobs |-> FALSE]

\* Nothing is focused, nothing was started, nothing was saved.
InitIdle ==
    /\ files = InitFiles
    /\ notification = "none"
    /\ current_data = None
    /\ process = 0
    /\ result_cache = <<>>
    /\ nJobs = 0
    /\ jobData = [j \in Jobs |-> None]
    /\ proc = [j \in Jobs |-> "unstarted"]
    /\ queue = [j \in Jobs |-> <<>>]
    /\ thread = [j \in Jobs |-> "unstarted"]
    /\ emitted = "none"
    /\ invoked = [j \in Jobs |-> FALSE]
    /\ origin = [j \in Jobs |-> "none"]
    /\ fate = [j \in Jobs |-> "none"]
    /\ focusedAway = [j \in Jobs |-> FALSE]

\* The bit flip correlation of utils.py applied to one input.
InitCorr ==
    \E bodies \in CorrBodyLists, size \in CorrSizes :
        /\ call = [fn |-> "calculate_bit_flip_correlation",
                   bodies |-> bodies, size |-> size]
        /\ ret = None
        /\ obj = NoObject
        /\ InitIdle

NextCorr == correlation_returns

\* (mutation of ljust: the fill bytes are put in front of the data)
rjust_bytes(data, width, fill) ==
    [i \in 1..(width - Len(data)) |-> fill] \o data

\* bytes.ljust(width, fill): the data followed by fill bytes up to width;
\* data of width or more bytes is returned as it is.
ljust(data, width, fill) ==
    data \o [i \in 1..(width - Len(data)) |-> fill]

\* struct.unpack("<Q", buffer)[0]: the unsigned 64-bit integer of eight
\* bytes, least significant byte first; struct.error for any other number
\* of bytes.  The integer is held as four 16-bit limbs, least significant
\* limb first.
struct_unpack_Q(buffer) ==
    IF Len(buffer) # 8
    THEN [error |-> TRUE, value |-> <<>>]
    ELSE [error |-> FALSE,
          value |-> [k \in 1..4 |-> buffer[2 * k - 1] + 256 * buffer[2 * k]]]

\* The body of one packet as _run_analysis puts it into the numpy array.
body(packet) == struct_unpack_Q(ljust(packet.data, 8, 0))

\* One frame, with payload bytes out of {0, 1, 255} and a declared length
\* that is the number of payload bytes or 8, is packed.
InitPack ==
    /\ \E n \in 0..MaxPayload : \E data \in [1..n -> {0, 1, 255}] :
          \E length \in {n, 8} :
             call = [fn |-> "body", packet |-> [data |-> data, length |-> length]]
    /\ ret = None
    /\ obj = NoObject
    /\ InitIdle

body_returns ==
    /\ ret = None
    /\ call.fn = "body"
    /\ ret' = <<body(call.packet)>>
    /\ UNCHANGED <<idleVars, call, obj>>

NextPack == body_returns

SpecPack == InitPack /\ [][NextPack]_vars

\* The numbers of bodies handed to calculate_bit_flip_correlation: the
\* bodies are taken by their number only, in blocks of 200.
SampleCounts == {q * 200 + r : q \in 0..MaxSampleBlocks, r \in {0, 199}}

\* calculate_bit_flip_correlation up to the cut of the bodies: the window
\* length and the number of bodies that are left after the cut.
InitWindow ==
    /\ \E n \in SampleCounts : call = [fn |-> "convolution_length", n |-> n]
    /\ ret = None
    /\ obj = NoObject
    /\ InitIdle

window_chosen ==
    /\ ret = None
    /\ call.fn = "convolution_length"
    /\ ret' = <<[convolution_length |-> convolution_length(call.n),
                 shape |-> IF call.n < bcot_max_samples
                           THEN call.n ELSE bcot_max_samples]>>
    /\ UNCHANGED <<idleVars, call, obj>>

NextWindow == window_chosen

SpecWindow == InitWindow /\ [][NextWindow]_vars

SpecCorr == InitCorr /\ [][NextCorr]_vars

\* A function of message_layout_string.py applied to one input.
InitLayout ==
    /\ \E message \in Messages :
          \/ call = [fn |-> "get_signal_letter_mapping", message |-> message,
                     highlight |-> NoHighlight]
          \/ \E highlight \in Highlights :
                call = [fn |-> "message_layout_string", message |-> message,
                        highlight |-> highlight]
    /\ ret = None
    /\ obj = NoObject
    /\ InitIdle

NextLayout ==
    \/ letters_return
    \/ layout_returns

SpecLayout == InitLayout /\ [][NextLayout]_vars

\* A button bar of two actions, each of 1..MaxStates states and built in
\* any of them.
InitButtons ==
    /\ \E n \in [Keys -> 1..MaxStates] :
          \E state_index \in [Keys -> 0..(MaxStates - 1)] :
             /\ \A key \in Keys : state_index[key] < n[key]
             /\ obj = [actions |-> [key \in Keys |->
                                       Action(key, n[key], state_index[key])],
                       global_var |-> 0]
    /\ call = NoCall
    /\ ret = None
    /\ InitIdle

NextButtons == \E key \in Keys : keypress(key)

SpecButtons == InitButtons /\ [][NextButtons]_vars

\* ------------------------------------------------------ decimal_edit.py
\* DecimalEdit.valid_char: len(ch) == 1 and ch.upper() in "0123456789.-";
\* a key with a name ("left", "backspace") is longer than one character.
valid_char(ch) == ch \in {"0", "1", ".", "-"}

\* Whether Decimal(edit_text) raises InvalidOperation, for a text of the
\* characters that valid_char lets in: a number is an optional sign and
\* digits with at most one point among them, one digit at least.
InvalidOperation(edit_text) ==
    LET unsigned == IF edit_text # <<>> /\ edit_text[1] = "-"
                    THEN Tail(edit_text) ELSE edit_text
    IN  ~ /\ \A i \in 1..Len(unsigned) : unsigned[i] \in {"0", "1", "."}
          /\ Count(unsigned, ".") <= 1
          /\ Count(unsigned, "0") + Count(unsigned, "1") >= 1

\* urwid.Edit.keypress on a single line: the text and the cursor after
\* the key, and the key itself when it is not handled.  A text of MaxText
\* characters takes no further character.
Edit_keypress(edit, key) ==
    LET edit_text == edit.edit_text
        pos == edit.edit_pos
        handled(text, p) == [edit_text |-> text, edit_pos |-> p, unhandled |-> None]
        unhandled == [edit_text |-> edit_text, edit_pos |-> pos,
                      unhandled |-> <<key>>]
    IN  IF valid_char(key)
        THEN handled(SubSeq(edit_text, 1, pos) \o <<key>>
                         \o SubSeq(edit_text, pos + 1, Len(edit_text)), pos + 1)
        ELSE IF key = "left"
        THEN (IF pos = 0 THEN unhandled ELSE handled(edit_text, pos - 1))
        ELSE IF key = "right"
        THEN (IF pos >= Len(edit_text) THEN unhandled
              ELSE handled(edit_text, pos + 1))
        ELSE IF key = "backspace"
        THEN (IF pos = 0 THEN unhandled
              ELSE handled(SubSeq(edit_text, 1, pos - 1)
                               \o SubSeq(edit_text, pos + 1, Len(edit_text)),
                           pos - 1))
        ELSE IF key = "delete"
        THEN (IF pos >= Len(edit_text) THEN unhandled
              ELSE handled(SubSeq(edit_text, 1, pos)
                               \o SubSeq(edit_text, pos + 2, Len(edit_text)),
                           pos))
        ELSE IF key = "home" THEN handled(edit_text, 0)
        ELSE IF key = "end" THEN handled(edit_text, Len(edit_text))
        ELSE unhandled

\* (mutation of DecimalEdit_keypress: the text is not put back)
DecimalEdit_keypress_kept(key) ==
    LET after == Edit_keypress(obj, key)
    IN  /\ valid_char(key) => Len(obj.edit_text) < MaxText
        /\ obj' = [edit_text |-> after.edit_text, edit_pos |-> after.edit_pos,
                   outcome |-> IF after.unhandled = None
                               THEN "valuechange" ELSE "unhandled"]
        /\ UNCHANGED <<idleVars, call, ret>>

\* DecimalEdit.keypress: a handled key emits 'valuechange' with the value
\* of the text, "-" being read as "-0" and the empty text as the default;
\* when the text does not parse, the old text and cursor are put back.
\* outcome tells which of the three ways the last keypress went.
DecimalEdit_keypress(key) ==
    LET after == Edit_keypress(obj, key)
        edit_text == IF after.edit_text = <<"-">> THEN <<"-", "0">>
                     ELSE after.edit_text
        raises == edit_text # <<>> /\ InvalidOperation(edit_text)
    IN  /\ valid_char(key) => Len(obj.edit_text) < MaxText
        /\ obj' = IF after.unhandled = None /\ raises
                  THEN [edit_text |-> obj.edit_text, edit_pos |-> obj.edit_pos,
                        outcome |-> "restored"]
                  ELSE [edit_text |-> after.edit_text,
                        edit_pos |-> after.edit_pos,
                        outcome |-> IF after.unhandled = None
                                    THEN "valuechange" ELSE "unhandled"]
        /\ UNCHANGED <<idleVars, call, ret>>

\* A DecimalEdit with no initial value or with str(initial) as its text,
\* the cursor at the end of the text.
InitDecimal ==
    /\ \E initial \in {<<>>, <<"1">>, <<"-", "1">>, <<"0", ".", "1">>} :
          obj = [edit_text |-> initial, edit_pos |-> Len(initial),
                 outcome |-> "none"]
    /\ call = NoCall
    /\ ret = None
    /\ InitIdle

NextDecimal ==
    \E key \in {"0", "1", ".", "-", "x", "left", "right", "backspace",
                "delete", "home", "end", "up"} : DecimalEdit_keypress(key)

SpecDecimal == InitDecimal /\ [][NextDecimal]_vars

\* ------------------------------------------------------ signal_table.py
\* Decimal(text) for the texts of the bound fields of the model.  A Decimal
\* is whole + eps * 10^-17: the texts of the model need no other digits.
Decimal(text) ==
    CASE text = "0" -> [whole |-> 0, eps |-> 0]
      [] text = "-0" -> [whole |-> 0, eps |-> 0]
      [] text = "1" -> [whole |-> 1, eps |-> 0]
      [] text = "1.00000000000000002" -> [whole |-> 1, eps |-> 2]
      [] text = "2" -> [whole |-> 2, eps |-> 0]

\* DecimalEdit.value: the default for the empty text, "-" read as "-0"
value(edit_text, default) ==
    IF edit_text = "" THEN default
    ELSE <<Decimal(IF edit_text = "-" THEN "-0" ELSE edit_text)>>

\* float(value) of a Decimal: the nearest double.  Next to a whole number
\* other than 0 the doubles are more than 10^-16 apart, so that up to 5
\* units of 10^-17 are rounded away; next to 0 they are kept.
float(decimal) ==
    IF decimal.whole # 0 /\ decimal.eps <= 5
    THEN [whole |-> decimal.whole, eps |-> 0]
    ELSE decimal

\* C_IDENTIFIER_RE = ^[a-zA-Z_][a-zA-Z0-9_]{0,31}$
_validate_c_identifier(text) ==
    LET letter(c) == \/ ord(c) \in ord("a")..ord("z")
                     \/ ord(c) \in ord("A")..ord("Z")
                     \/ c = "_"
    IN  /\ Len(text) \in 1..32
        /\ letter(text[1])
        /\ \A i \in 2..Len(text) :
              letter(text[i]) \/ ord(text[i]) \in ord("0")..ord("9")

\* text.isprintable() and '"' not in text; "del" is a character that is
\* not printable.
_validate_char_string(text) ==
    \A i \in 1..Len(text) : text[i] # "del" /\ text[i] # "quote"

\* The row at the start of a handler: refreshed and message_updated count
\* the calls of message.refresh(strict=True) and the 'message_updated'
\* emissions of the handler that ran last.
SignalTableRow == [obj EXCEPT !.refreshed = 0, !.message_updated = 0]

\* _signal_updated: the message is refreshed and re-validated, the decoded
\* value is updated, 'message_updated' is emitted.
_signal_updated(row) ==
    [row EXCEPT !.refreshed = @ + 1, !.message_updated = @ + 1]

\* _update_signal_label, the 'postchange' handler of the label field whose
\* text has become text.  Putting the old text back changes the text
\* again: the handler runs once more, on the old text.
_update_signal_label(text) ==
    LET name(t) == IF t = <<>>
                   THEN <<"_", "_", "e", "m", "p", "t", "y", "_", "_">> ELSE t
        accept(t) == _signal_updated([SignalTableRow EXCEPT
                                         !.signal.name = name(t),
                                         !.label_edit = t])
    IN  /\ text # obj.label_edit
        /\ obj' = IF _validate_c_identifier(name(text))
                  THEN accept(text) ELSE accept(obj.label_edit)
        /\ UNCHANGED <<idleVars, call, ret>>

\* _update_signal_signed, the 'postchange' handler of the toggled checkbox
_update_signal_signed ==
    LET checked == ~obj.signal.is_signed
    IN  /\ obj' = _signal_updated([SignalTableRow EXCEPT
                                      !.signal.is_signed = checked])
        /\ UNCHANGED <<idleVars, call, ret>>

\* _update_signal_float, the 'postchange' handler of the toggled checkbox:
\* the flag is refused for a length other than 16, 32 and 64.
_update_signal_float ==
    LET checked == ~obj.signal.is_float
    IN  /\ obj' = IF checked /\ obj.signal.length \notin {16, 32, 64}
                  THEN SignalTableRow
                  ELSE _signal_updated([SignalTableRow EXCEPT
                                           !.signal.is_float = checked])
        /\ UNCHANGED <<idleVars, call, ret>>

\* _update_signal_offset, the 'valuechange' handler of the offset field
_update_signal_offset(edit_text) ==
    LET v == value(edit_text, <<Decimal("0")>>)[1]
    IN  /\ obj' = _signal_updated([SignalTableRow EXCEPT
                                      !.signal.decimal.offset = v,
                                      !.signal.offset = float(v)])
        /\ UNCHANGED <<idleVars, call, ret>>

\* _update_signal_scale, the 'valuechange' handler of the scale field
_update_signal_scale(edit_text) ==
    LET v == value(edit_text, <<Decimal("1")>>)[1]
    IN  /\ obj' = _signal_updated([SignalTableRow EXCEPT
                                      !.signal.decimal.scale = v,
                                      !.signal.scale = float(v)])
        /\ UNCHANGED <<idleVars, call, ret>>

\* (mutation of _update_signal_bounds: the bounds are stored as they are)
_update_signal_bounds_unordered(edit, edit_text) ==
    LET row == IF edit = "minimum"
               THEN [SignalTableRow EXCEPT !.minimum_edit = edit_text]
               ELSE [SignalTableRow EXCEPT !.maximum_edit = edit_text]
        minimum == value(row.minimum_edit, None)
        maximum == value(row.maximum_edit, None)
    IN  /\ obj' = _signal_updated(
                      [row EXCEPT
                          !.signal.decimal.minimum = minimum,
                          !.signal.decimal.maximum = maximum,
                          !.signal.minimum =
                              IF minimum = None THEN None
                              ELSE <<float(minimum[1])>>,
                          !.signal.maximum =
                              IF maximum = None THEN None
                              ELSE <<float(maximum[1])>>])
        /\ UNCHANGED <<idleVars, call, ret>>

\* _update_signal_bounds, the 'valuechange' handler of the two bound
\* fields, after a keypress has left edit_text in one of them
_update_signal_bounds(edit, edit_text) ==
    LET row == IF edit = "minimum"
               THEN [SignalTableRow EXCEPT !.minimum_edit = edit_text]
               ELSE [SignalTableRow EXCEPT !.maximum_edit = edit_text]
        minimum == value(row.minimum_edit, None)
        maximum == value(row.maximum_edit, None)
        less(a, b) == \/ a.whole < b.whole
                      \/ a.whole = b.whole /\ a.eps < b.eps
    IN  /\ obj' = IF \/ minimum = None
                     \/ maximum = None
                     \/ less(minimum[1], maximum[1])
                  THEN _signal_updated(
                           [row EXCEPT
                               !.signal.decimal.minimum = minimum,
                               !.signal.decimal.maximum = maximum,
                               !.signal.minimum =
                                   IF minimum = None THEN None
                                   ELSE <<float(minimum[1])>>,
                               !.signal.maximum =
                                   IF maximum = None THEN None
                                   ELSE <<float(maximum[1])>>])
                  ELSE row
        /\ UNCHANGED <<idleVars, call, ret>>

\* (mutation of _update_signal_unit: the message is not refreshed)
_update_signal_unit_quiet(text) ==
    /\ text # obj.unit_edit
    /\ obj' = IF _validate_char_string(text)
              THEN [SignalTableRow EXCEPT
                       !.signal.unit = IF text = <<>> THEN None ELSE <<text>>,
                       !.unit_edit = text]
              ELSE SignalTableRow
    /\ UNCHANGED <<idleVars, call, ret>>

\* _update_signal_unit, the 'postchange' handler of the unit field whose
\* text has become text.  Putting the old text back changes the text
\* again: the handler runs once more, on the old text.
_update_signal_unit(text) ==
    LET accept(t) == _signal_updated([SignalTableRow EXCEPT
                                         !.signal.unit =
                                             IF t = <<>> THEN None ELSE <<t>>,
                                         !.unit_edit = t])
    IN  /\ text # obj.unit_edit
        /\ obj' = IF _validate_char_string(text)
                  THEN accept(text) ELSE accept(obj.unit_edit)
        /\ UNCHANGED <<idleVars, call, ret>>

\* The row of a signal of 8 or 16 bits named a, without unit, offset 0,
\* scale 1, whose bounds are ordered or not both defined.
InitTable ==
    /\ \E length \in {8, 16} :
       \E minimum_edit, maximum_edit \in {"", "1", "2"} :
          LET minimum == value(minimum_edit, None)
              maximum == value(maximum_edit, None)
          IN  /\ IF minimum = None \/ maximum = None THEN TRUE
                 ELSE minimum[1].whole < maximum[1].whole
              /\ obj = [signal |->
                           [name |-> <<"a">>, length |-> length,
                            is_signed |-> FALSE, is_float |-> FALSE,
                            offset |-> float(Decimal("0")),
                            scale |-> float(Decimal("1")),
                            minimum |-> IF minimum = None THEN None
                                        ELSE <<float(minimum[1])>>,
                            maximum |-> IF maximum = None THEN None
                                        ELSE <<float(maximum[1])>>,
                            unit |-> None,
                            decimal |-> [offset |-> Decimal("0"),
                                         scale |-> Decimal("1"),
                                         minimum |-> minimum,
                                         maximum |-> maximum]],
                        label_edit |-> <<"a">>, unit_edit |-> <<>>,
                        minimum_edit |-> minimum_edit,
                        maximum_edit |-> maximum_edit,
                        refreshed |-> 0, message_updated |-> 0]
    /\ call = NoCall
    /\ ret = None
    /\ InitIdle

NextTable ==
    \/ \E text \in {<<>>, <<"a">>, <<"9">>} : _update_signal_label(text)
    \/ _update_signal_signed
    \/ _update_signal_float
    \/ \E edit_text \in {"", "1"} : _update_signal_offset(edit_text)
    \/ \E edit_text \in {"", "2"} : _update_signal_scale(edit_text)
    \/ \E edit \in {"minimum", "maximum"} :
          \E edit_text \in {"", "-", "1", "1.00000000000000002", "2"} :
             _update_signal_bounds(edit, edit_text)
    \/ \E text \in {<<>>, <<"m">>, <<"quote">>} : _update_signal_unit(text)

SpecTable == InitTable /\ [][NextTable]_vars

\* ------------------------------------------------------------ funcs.py
\* bit_flips_for_correlation.  [[0] * (nr_messages - 1)] * length_payload
\* is length_payload references to one list, so that the increment at
\* all_bit_flips[i][idx - 1] is seen at every i: the entry idx - 1 of
\* that list counts the bits that differ between frame idx - 1 and frame
\* idx.  A frame of fewer than length_payload bits raises IndexError,
\* which is caught: None is returned.
bit_flips_for_correlation(all_data_in_bits, length_payload, nr_messages) ==
    IF \E idx \in 1..Len(all_data_in_bits) :
           Len(all_data_in_bits[idx]) < length_payload
    THEN None
    ELSE LET row == [j \in 1..(nr_messages - 1) |->
                        Cardinality({i \in 1..length_payload :
                            all_data_in_bits[j + 1][i] # all_data_in_bits[j][i]})]
         IN  <<[i \in 1..length_payload |-> row]>>

\* bit_flip_correlation hands the frames as strings of bits, with the
\* length of the first frame and the number of frames.
InitFlips ==
    /\ \E nr_messages \in 1..MaxFlipFrames :
       \E all_data_in_bits \in
              [1..nr_messages -> UNION {[1..n -> {"0", "1"}] : n \in 1..MaxFlipBits}] :
          call = [fn |-> "bit_flips_for_correlation",
                  all_data_in_bits |-> all_data_in_bits,
                  length_payload |-> Len(all_data_in_bits[1]),
                  nr_messages |-> nr_messages]
    /\ ret = None
    /\ obj = NoObject
    /\ InitIdle

flips_return ==
    /\ ret = None
    /\ call.fn = "bit_flips_for_correlation"
    /\ ret' = <<bit_flips_for_correlation(call.all_data_in_bits,
                                          call.length_payload,
                                          call.nr_messages)>>
    /\ UNCHANGED <<idleVars, call, obj>>

NextFlips == flips_return

SpecFlips == InitFlips /\ [][NextFlips]_vars

NextBits == call_returns

SpecBits == InitBits /\ [][NextBits]_vars

\* The view with the steps of the supervising threads taken one by one.
NextRelay ==
    \/ update_packets
    \/ rerun_analysis
    \/ \E j \in Jobs : run_analysis(j)
    \/ \E j \in Jobs : run_analysis_exit(j)
    \/ \E j \in Jobs : run_analysis_crash(j)
    \/ \E j \in Jobs : wait_for_analysis_get(j)
    \/ \E j \in Jobs : wait_for_analysis_commit(j)
    \/ \E j \in Jobs : wait_for_analysis_empty(j)

SpecRelay == Init /\ [][NextRelay]_vars

\* The coordinator under fair scheduling: a supervising thread that can
\* return does return, and a worker that has posted exits.  The handlers
\* of the main thread and the analysis itself are under no obligation.
SpecLive ==
    /\ Spec
    /\ \A j \in Jobs : WF_vars(wait_for_analysis(j))
    /\ \A j \in Jobs : WF_vars(run_analysis_exit(j))

\* ================================================================ claims
AliveJobs == {j \in Jobs : IsAlive(proc[j])}

\* The supervising thread of job j returns in this step.
Returns(j) == thread[j] = "started" /\ thread'[j] = "ended"

\* The supervising thread of job j writes the job's result to the cache in
\* this step.
Commits(j) == Returns(j) /\ jobData[j] # None /\ queue[j] # <<>>

\* C1: at most one analysis worker is alive at any time, and a step that
\* starts a job leaves every worker that was alive before it terminated,
\* the new worker being the only one alive.
C1_SingleFlight ==
    /\ [](Cardinality(AliveJobs) <= 1)
    /\ [][nJobs' # nJobs =>
            /\ \A j \in AliveJobs : proc'[j] = "dead"
            /\ AliveJobs' = {nJobs'}]_vars

\* C1 witness: a job was terminated by the start of the job now running.
C1_Witness ==
    \E j \in Pending :
        /\ fate[j] = "restarted" /\ proc[j] = "dead"
        /\ process # j /\ IsAlive(proc[process])

\* C2 (as claimed): a focus call that repeats the identifier and the packet
\* list of the current focus starts no job and leaves the workers alone.
C2_RepeatedFocusStartsNothing ==
    [][\A id \in Identifiers, pkts \in PacketLists :
         (current_data = <<Data(id, pkts)>> /\ update_packets_CAN(id, pkts))
            => (nJobs' = nJobs /\ proc' = proc)]_vars

\* C3 (as claimed): the result of a job that was running when another
\* identifier was focused is never written to the cache.
C3_FocusedAwayNeverCommitted ==
    [][\A j \in Jobs : Commits(j) => ~ focusedAway[j]]_vars

\* C4 (as claimed): a result is written to the cache only by a job that
\* was not cancelled and has not been superseded by a newer job (for its
\* identifier, or by the restart that terminated its worker).
C4_SupersedeWins ==
    [][\A j \in Jobs : Commits(j) => fate[j] = "none"]_vars

\* C5 (as claimed): the thread of a cancelled or superseded job emits
\* nothing to the main thread, and a thread that emits has committed.
C5_SilentDiscard ==
    [][\A j \in Jobs : Returns(j) =>
          /\ (fate[j] # "none" => emitted' = "none")
          /\ (emitted' # "none" => Commits(j))]_vars

\* C6 (as claimed): with an identifier focused, rerun() starts a new job in
\* every state, a job running or not.
C6_RerunAlwaysStarts ==
    (current_data # None /\ nJobs < MaxJobs)
        => ENABLED (rerun_analysis /\ nJobs' = nJobs + 1)

\* C6 (amended): with an identifier focused, rerun() starts a new job on
\* the current data exactly if no worker is alive, whatever the cache
\* holds; while a worker is alive rerun() changes nothing.
C6_RerunUnlessRunning ==
    (current_data # None /\ nJobs < MaxJobs) =>
        IF _analysis_running(process, proc)
        THEN ~ ENABLED (rerun_analysis /\ vars' # vars)
        ELSE /\ ENABLED (rerun_analysis /\ nJobs' = nJobs + 1)
             /\ ~ ENABLED (rerun_analysis /\
                           ~ (/\ nJobs' = nJobs + 1
                              /\ process' = nJobs'
                              /\ jobData'[process'] = current_data
                              /\ proc'[process'] = "running"
                              /\ thread'[process'] = "started"
                              /\ result_cache' = result_cache))

\* C6 witness: a job started by rerun() runs on an identifier that has a
\* cache entry.
C6_Witness ==
    \E j \in Pending :
        /\ origin[j] = "rerun" /\ IsAlive(proc[j])
        /\ jobData[j] # None /\ jobData[j] = current_data
        /\ jobData[j][1].identifier \in DOMAIN result_cache

\* C7 (as claimed): rerun() with nothing focused starts no process and no
\* thread and changes no state of the view.
C7_RerunWithoutFocusNoop ==
    [][(current_data = None /\ rerun_analysis) =>
          UNCHANGED <<current_data, process, result_cache, nJobs, proc,
                      thread>>]_vars

\* C8 (as claimed): after cancel() no worker is alive, and the result of a
\* job that cancel() terminated is never written to the cache.
C8_CancelRecordsNothing ==
    [][/\ update_packets_other => AliveJobs' = {}
       /\ \A j \in Jobs : Commits(j) => fate[j] # "cancelled"]_vars

\* C9 (as claimed): the status is Idle when nothing is focused, Running
\* while the worker is alive, and in every other state Completed with the
\* cached outcome of the focused identifier, marked obsolete exactly if
\* the cached packet list differs from the focused one.
C9_StatusTotal ==
    IF current_data = None THEN StatusText = "No CAN packet selected."
    ELSE IF _analysis_running(process, proc) THEN StatusText = "Analysis Running..."
    ELSE /\ current_data[1].identifier \in DOMAIN result_cache
         /\ LET entry == result_cache[current_data[1].identifier]
                stale == entry.packets # current_data[1].packets
            IN  StatusText =
                  IF entry.result.tag = "Success"
                  THEN (IF stale THEN "Analysis Done (obsolete)" ELSE "Analysis Done")
                  ELSE (IF stale THEN "Analysis Failed (obsolete)" ELSE "Analysis Failed")

\* The frames of a packet list do not all have the same declared length.
SizesDiffer(pkts) ==
    Len(pkts) = 0 \/ \E i, k \in 1..Len(pkts) : pkts[i] # pkts[k]

\* C10: for a job whose packet list is empty or has frames of different
\* lengths the analysis function is never called, what its worker posts is
\* an Error, and so is what the cache holds for such a packet list.
C10_SizeCheck ==
    /\ \A j \in Pending :
         (jobData[j] # None /\ SizesDiffer(jobData[j][1].packets)) =>
            /\ ~ invoked[j]
            /\ proc[j] = "posted" => queue[j] # <<>>
            /\ queue[j] # <<>> => Head(queue[j]).tag = "Error"
    /\ \A id \in DOMAIN result_cache :
         SizesDiffer(result_cache[id].packets) =>
            result_cache[id].result.tag = "Error"

\* C10 witness: the Error of a job on frames of different lengths has
\* reached the cache.
C10_Witness ==
    \E id \in DOMAIN result_cache :
        /\ Len(result_cache[id].packets) >= 2
        /\ SizesDiffer(result_cache[id].packets)
        /\ result_cache[id].result = Error("packet sizes differ")

\* C11 (as claimed): a job that was not cancelled and whose worker died
\* without posting, or whose worker posted an Error, ends with an Error
\* that carries a reason in the cache entry of its identifier.
C11_FailureCommitted ==
    [][\A j \in Jobs :
         (/\ Returns(j) /\ jobData[j] # None /\ fate[j] = "none"
          /\ (queue[j] = <<>> \/ Head(queue[j]).tag = "Error"))
         => LET id == jobData[j][1].identifier IN
            /\ id \in DOMAIN result_cache'
            /\ result_cache'[id].result.tag = "Error"
            /\ result_cache'[id].result.reason # ""]_vars

\* The identifiers whose cached result is an Error.
FailedIds == {id \in DOMAIN result_cache : result_cache[id].result.tag = "Error"}

\* C12: an Error that a job posted is written to the cache when its
\* thread gets it; no identifier ever leaves the cache; and a step that
\* starts a job for an identifier whose cached result is an Error is a
\* rerun(), never a focus call.
C12_NoAutomaticRetry ==
    [][/\ \A j \in Jobs :
            (Commits(j) /\ Head(queue[j]).tag = "Error")
                => jobData[j][1].identifier \in FailedIds'
       /\ DOMAIN result_cache \subseteq DOMAIN result_cache'
       /\ (nJobs' # nJobs /\ jobData'[nJobs'] # None
             /\ jobData'[nJobs'][1].identifier \in DOMAIN result_cache)
            => (origin'[nJobs'] = "rerun" /\ rerun_analysis)
       /\ \A id \in FailedIds, pkts \in PacketLists :
            update_packets_CAN(id, pkts) => (nJobs' = nJobs /\ proc' = proc)]_vars

\* C12 witness: the only job started so far has failed, and the focus
\* has since supplied another packet list for its identifier without
\* starting a job.
C12_Witness ==
    /\ nJobs = 1 /\ Pending = {} /\ current_data # None
    /\ current_data[1].identifier \in FailedIds
    /\ result_cache[current_data[1].identifier].packets # current_data[1].packets

\* C13 (as claimed): no identifier ever leaves the cache; an entry is
\* added or changed only by the supervising thread of a job that the
\* coordinator did not terminate; focus, rerun, cancel and save leave the
\* cache as it is.
C13_CacheWrittenByCompletionOnly ==
    [][/\ DOMAIN result_cache \subseteq DOMAIN result_cache'
       /\ result_cache' # result_cache
            => \E j \in Jobs : Commits(j) /\ fate[j] \notin {"cancelled", "restarted"}
       /\ (update_packets \/ rerun_analysis \/ _save)
            => result_cache' = result_cache]_vars

\* C14: the thread of a job that was neither cancelled nor superseded
\* replaces the entry of the job's identifier by the packet list the job
\* was started with and the result its worker posted; the cache keeps
\* every other entry and gains no other identifier.
C14_CommitReplacesOwnEntry ==
    [][\A j \in Jobs : (Commits(j) /\ fate[j] = "none") =>
         LET id == jobData[j][1].identifier IN
         /\ DOMAIN result_cache' = DOMAIN result_cache \cup {id}
         /\ result_cache'[id].packets = jobData[j][1].packets
         /\ result_cache'[id].result = Head(queue[j])
         /\ \A other \in DOMAIN result_cache \ {id} :
                result_cache'[other] = result_cache[other]]_vars

\* C14 witness: a thread has just committed, the cache holds entries of
\* two identifiers, and the entry of the focused identifier holds the
\* packet list its job was started with, not the one focused since.
C14_Witness ==
    /\ emitted # "none" /\ Pending = {} /\ current_data # None
    /\ Cardinality(DOMAIN result_cache) >= 2
    /\ current_data[1].identifier \in DOMAIN result_cache
    /\ result_cache[current_data[1].identifier].packets # current_data[1].packets

\* The stale flag of the focused identifier.
Stale ==
    /\ current_data # None
    /\ current_data[1].identifier \in DOMAIN result_cache
    /\ result_cache[current_data[1].identifier].packets # current_data[1].packets

\* C15: a focus call for an identifier with a cache entry, on a packet
\* list other than the cached one, leaves the cache and the workers as
\* they are and starts no job; afterwards the entry is flagged stale, and
\* the status, unless a job is running, is the cached outcome marked
\* obsolete.
C15_StalenessOnlyFlags ==
    [][\A id \in DOMAIN result_cache, pkts \in PacketLists :
         (result_cache[id].packets # pkts /\ update_packets_CAN(id, pkts)) =>
            /\ result_cache' = result_cache
            /\ nJobs' = nJobs /\ proc' = proc /\ process' = process
            /\ Stale'
            /\ ~ _analysis_running(process, proc) =>
                  StatusText' = IF result_cache[id].result.tag = "Success"
                                THEN "Analysis Done (obsolete)"
                                ELSE "Analysis Failed (obsolete)"]_vars

\* C15 witness: the only job started so far has succeeded and the focus
\* has since supplied another packet list for its identifier: the status
\* shows the outcome as obsolete.
C15_Witness ==
    /\ nJobs = 1 /\ Pending = {} /\ Stale
    /\ StatusText = "Analysis Done (obsolete)"

Committing == {j \in Jobs : thread[j] = "got"}

\* C17 (as claimed): at most one supervising thread at a time is in the
\* block that writes the cache.
C17_SingleWriter == Cardinality(Committing) <= 1

\* A save in the current state has a message to write.
HasMessage ==
    _get_message(current_data, process, proc, result_cache).message # None

\* C18: a save on a path that names an existing file writes nothing and
\* never reports "File written."; with a message to save it reports that
\* saving failed because the file exists.  The file that was there from
\* the start keeps its content for ever.
C18_SaveNeverOverwrites ==
    /\ [](files[TakenPath] = <<Foreign>>)
    /\ [][\A save_path \in Paths :
            (files[save_path] # None /\ save(save_path)) =>
               /\ files' = files
               /\ notification' # "File written."
               /\ HasMessage => notification' = "Saving failed: file exists"]_vars

\* C18 witness: a save has been refused because its file exists, and the
\* file has its old content.
C18_Witness ==
    /\ notification = "Saving failed: file exists"
    /\ files[TakenPath] = <<Foreign>>
    /\ HasMessage

\* C19: a save step, whatever it reports, changes neither the focus nor
\* the process, the jobs, their queues and threads, the cache or the
\* status line.
C19_SaveLeavesAnalysisState ==
    [][_save =>
         /\ UNCHANGED <<current_data, process, result_cache>>
         /\ UNCHANGED <<nJobs, jobData, proc, queue, thread>>
         /\ StatusText' = StatusText]_vars

\* C19 witness: a save has written its file, and the focused identifier
\* still has the successful result the file was written from.
C19_Witness ==
    /\ notification = "File written."
    /\ current_data # None
    /\ files[FreePath] = <<current_data[1].identifier>>
    /\ StatusText = "Analysis Done"

\* Bitwise exclusive or of two naturals.
RECURSIVE Xor(_, _)
Xor(a, b) ==
    IF a = 0 /\ b = 0 THEN 0
    ELSE (IF a % 2 = b % 2 THEN 0 ELSE 1) + 2 * Xor(a \div 2, b \div 2)

\* The number of adjacent pairs of values whose exclusive or has bit b set.
Flips(values, b) ==
    Cardinality({i \in 1..(Len(values) - 1) :
                    (Xor(values[i], values[i + 1]) \div (2 ^ b)) % 2 = 1})

\* C20: for a bit width in 1..64, count_bit_flips returns a list of
\* bitWidth entries, entry b being the number of indices i for which bit b
\* of values[i] XOR values[i+1] is set; fewer than two values give zeros
\* only, and count_bit_flips([0,1,3,2], 2) = [2, 1].
C20_CountBitFlips ==
    (ret # None /\ call.fn = "count_bit_flips" /\ call.size \in 1..64) =>
        LET values == call.bodies
            bitWidth == call.size
            result == ret[1]
        IN  /\ result.raised = ""
            /\ Len(result.tav) = bitWidth
            /\ \A b \in 0..(bitWidth - 1) : result.tav[b + 1] = Flips(values, b)
            /\ Len(values) < 2 => \A b \in 0..(bitWidth - 1) : result.tav[b + 1] = 0
            /\ (values = <<0, 1, 3, 2>> /\ bitWidth = 2) => result.tav = <<2, 1>>

\* C20 witness: count_bit_flips([0,1,3,2], 2) has returned [2, 1].
C20_Witness ==
    /\ call = [fn |-> "count_bit_flips", bodies |-> <<0, 1, 3, 2>>, size |-> 2]
    /\ ret = <<[raised |-> "", tav |-> <<2, 1>>]>>

\* C21: for every size below 1 or above 64, whatever the bodies,
\* count_bit_flips raises ValueError and returns no list.
C21_CountBitFlipsRefusesSize ==
    (ret # None /\ call.fn = "count_bit_flips"
        /\ (call.size < 1 \/ call.size > 64)) =>
        (ret[1].raised = "ValueError" /\ ret[1].tav = <<>>)

\* C21 witness: count_bit_flips has refused size 0 and size 65 on bodies
\* that flip bits.
C21_Witness ==
    /\ call.fn = "count_bit_flips" /\ call.size \in {0, 65}
    /\ Len(call.bodies) >= 2 /\ call.bodies[1] # call.bodies[2]
    /\ ret = <<[raised |-> "ValueError", tav |-> <<>>]>>

\* The job in self._process was started for the focused identifier.
JobOfFocus ==
    /\ process # 0 /\ jobData[process] # None /\ current_data # None
    /\ jobData[process][1].identifier = current_data[1].identifier

\* C29 (as claimed): with an identifier focused, the status is Running
\* only if the running job was started for that identifier; while the job
\* of another identifier runs, a focused identifier with a cache entry
\* shows its cached outcome and the message of a cached Success can be
\* read.
C29_StatusOfFocused ==
    current_data # None =>
        /\ StatusText = "Analysis Running..." => JobOfFocus
        /\ (current_data[1].identifier \in DOMAIN result_cache
              /\ _analysis_running(process, proc) /\ ~ JobOfFocus) =>
             /\ StatusText \in {"Analysis Done", "Analysis Done (obsolete)",
                                "Analysis Failed", "Analysis Failed (obsolete)"}
             /\ result_cache[current_data[1].identifier].result.tag = "Success"
                  => HasMessage

\* C30 (as claimed): with an identifier focused and no worker alive the
\* cache has an entry for the identifier: the status is never
\* "<unknown state>" and _get_message never finds cached_result None.
C30_NeverUnknown ==
    /\ (current_data # None /\ ~ _analysis_running(process, proc))
          => current_data[1].identifier \in DOMAIN result_cache
    /\ StatusText # "<unknown state>"
    /\ ~ _get_message(current_data, process, proc, result_cache).raised

\* Bit k has the same value in every body.
ConstantBit(bodies, k) ==
    \A i \in 1..Len(bodies) : BitOf(bodies[i], k) = BitOf(bodies[1], k)

\* C22: in the list calculate_bit_flip_correlation returns, the entries
\* (k-1, k) and (k, k+1) that exist are nan, not a number and never 0,
\* for every bit k that is constant across the bodies.
C22_ConstantBitUndefined ==
    (ret # None /\ call.fn = "calculate_bit_flip_correlation"
        /\ ret[1].raised = "") =>
        \A k \in 0..(call.size - 1) :
            ConstantBit(call.bodies, k) =>
                \A e \in {k, k + 1} \cap DOMAIN ret[1].bcot :
                    ret[1].bcot[e].nan

\* Bit 1 of three bits is constant while its two neighbours flip, and
\* both entries of the returned list are nan.
C22_Witness ==
    /\ call.fn = "calculate_bit_flip_correlation" /\ call.size = 3
    /\ ConstantBit(call.bodies, 1)
    /\ ~ ConstantBit(call.bodies, 0) /\ ~ ConstantBit(call.bodies, 2)
    /\ ret # None /\ ret[1].raised = ""
    /\ Len(ret[1].bcot) = 2 /\ ret[1].bcot[1].nan /\ ret[1].bcot[2].nan

\* The flip series of one bit, taken from the values of that bit alone,
\* under the moving sum
SmoothedFlips(bodies, bit) ==
    np_convolve(AdjacentXor([i \in 1..Len(bodies) |-> BitOf(bodies[i], bit)]),
                convolution_length(Len(bodies)))

\* C23: for a size in 1..64, calculate_bit_flip_correlation returns
\* exactly size - 1 entries (none for size 1), and entry i is the
\* correlation of the flip series of bit i and of bit i + 1 only.
C23_CorrelationLength ==
    (ret # None /\ call.fn = "calculate_bit_flip_correlation"
        /\ call.size \in 1..64) =>
        /\ ret[1].raised = ""
        /\ Len(ret[1].bcot) = call.size - 1
        /\ \A i \in 1..Len(ret[1].bcot) :
              ret[1].bcot[i] = np_corrcoef(SmoothedFlips(call.bodies, i - 1),
                                           SmoothedFlips(call.bodies, i))

\* The lowercase letters in their order
LowerCase ==
    <<"a", "b", "c", "d", "e", "f", "g", "h", "i", "j", "k", "l", "m",
      "n", "o", "p", "q", "r", "s", "t", "u", "v", "w", "x", "y", "z">>

\* C24: get_signal_letter_mapping gives the i-th signal of a message of at
\* most 26 signals the i-th lowercase letter, distinct signals get
\* distinct letters, and the rows of the signal table, sorted by letter,
\* are the signals in their declared order.
C24_LetterMapping ==
    (ret # None /\ call.fn = "get_signal_letter_mapping") =>
        LET n == Len(call.message.signals)
        IN  /\ DOMAIN ret[1] = 1..n
            /\ n <= 26 => \A i \in 1..n : ret[1][i] = LowerCase[i]
            /\ \A i, j \in 1..n : i # j => ret[1][i] # ret[1][j]
            /\ SignalTable_update(ret[1]) = [i \in 1..n |-> i]

\* The mapping of a message of two signals was returned.
C24_Witness ==
    /\ call.fn = "get_signal_letter_mapping"
    /\ Len(call.message.signals) = 2
    /\ ret = << <<"a", "b">> >>

\* The lines of a text
RECURSIVE SplitLines(_)
SplitLines(text) ==
    IF \A i \in 1..Len(text) : text[i] # "\n" THEN <<text>>
    ELSE LET at == CHOOSE i \in 1..Len(text) :
                       text[i] = "\n" /\ \A j \in 1..(i - 1) : text[j] # "\n"
         IN  <<SubSeq(text, 1, at - 1)>>
                 \o SplitLines(SubSeq(text, at + 1, Len(text)))

\* The byte rows of a layout: its lines with a '|', each from its first
\* '|' on
ByteRows(text) ==
    LET rows == SelectSeq(SplitLines(text), LAMBDA line : Count(line, "|") > 0)
    IN  [r \in 1..Len(rows) |->
            LET at == CHOOSE i \in 1..Len(rows[r]) :
                          rows[r][i] = "|" /\ \A j \in 1..(i - 1) : rows[r][j] # "|"
            IN  SubSeq(rows[r], at, Len(rows[r]))]

\* C26: the layout of a message of one byte with one big endian signal
\* over all 8 bits has exactly one byte row, without 'X', with '<' in the
\* first column of bit 7 and the letter of the signal in the last column
\* of bit 0, and the fill of the signal between them.
C26_WholeByteBigEndian ==
    (ret # None /\ call.fn = "message_layout_string"
        /\ call.message.length = 1
        /\ call.message.signals =
               <<[start |-> 7, length |-> 8, byte_order |-> "big_endian"]>>) =>
        LET rows == ByteRows(ret[1])
            dash == IF call.highlight = "a" THEN "=" ELSE "-"
        IN  /\ Len(rows) = 1
            /\ Count(rows[1], "X") = 0
            /\ rows[1] = <<"|", "<">> \o Rep(dash, 29) \o <<"a", "|">>

\* The layout of that message was returned.
C26_Witness ==
    /\ call.fn = "message_layout_string" /\ call.highlight = NoHighlight
    /\ call.message.length = 1
    /\ call.message.signals =
           <<[start |-> 7, length |-> 8, byte_order |-> "big_endian"]>>
    /\ ret # None /\ Len(ret[1]) > 0

\* The bits of a signal, each by its byte and its bit in the byte: a
\* little endian signal runs from its start upwards, a big endian signal
\* from its start down to bit 0 and on from bit 7 of the next byte.
BitsOf(signal) ==
    IF signal.byte_order = "little_endian"
    THEN [k \in 1..signal.length |->
             [byte |-> (signal.start + k - 1) \div 8,
              bit |-> (signal.start + k - 1) % 8]]
    ELSE [k \in 1..signal.length |->
             LET down == (7 - (signal.start % 8)) + (k - 1)
             IN  [byte |-> (signal.start \div 8) + (down \div 8),
                  bit |-> 7 - (down % 8)]]

\* The marker of a signal in column sub (0, 1, 2) of the cell of a bit of
\* a byte: '<' in the first column of its most significant bit, its
\* letter in the last column of its least significant bit, its fill in
\* its other columns; a blank outside the signal.
Marker(signal, letter, highlight, byte, bit, sub) ==
    LET bits == BitsOf(signal)
        here == {k \in 1..Len(bits) : bits[k] = [byte |-> byte, bit |-> bit]}
        msb == IF signal.byte_order = "little_endian" THEN Len(bits) ELSE 1
        lsb == IF signal.byte_order = "little_endian" THEN 1 ELSE Len(bits)
    IN  IF here = {} THEN " "
        ELSE IF msb \in here /\ sub = 0 THEN "<"
        ELSE IF lsb \in here /\ sub = 2 THEN letter
        ELSE IF letter = highlight THEN "=" ELSE "-"

\* No two signals of the message share a bit.
DisjointSignals(message) ==
    \A i, j \in 1..Len(message.signals) :
        i # j => {BitsOf(message.signals[i])[k] : k \in 1..message.signals[i].length}
                   \cap {BitsOf(message.signals[j])[k] :
                            k \in 1..message.signals[j].length} = {}

\* C27: in the byte rows of the layout, a column of a bit shows 'X' iff
\* more than one signal has a marker (head, fill or tail letter) there,
\* the marker itself when exactly one signal has, a blank when none has;
\* the layout of signals with disjoint bit ranges shows no 'X'.
C27_UnionLine ==
    (ret # None /\ call.fn = "message_layout_string") =>
        LET rows == ByteRows(ret[1])
            message == call.message
            n == Len(message.signals)
        IN  /\ Len(rows) = message.length
            /\ \A r \in 1..Len(rows), bit \in 0..7, sub \in 0..2 :
                  LET mark == [i \in 1..n |->
                                  Marker(message.signals[i], LowerCase[i],
                                         call.highlight, r - 1, bit, sub)]
                      marked == {i \in 1..n : mark[i] # " "}
                      shown == rows[r][4 * (7 - bit) + sub + 2]
                  IN  /\ shown = "X" <=> Cardinality(marked) > 1
                      /\ Cardinality(marked) = 1 =>
                             \A i \in marked : shown = mark[i]
                      /\ marked = {} => shown = " "
            /\ DisjointSignals(message) =>
                  \A r \in 1..Len(rows) : Count(rows[r], "X") = 0

\* A layout was returned in which two signals overlap in some columns,
\* shown as 'X', and one of them has columns of its own.
C27_Witness ==
    /\ call.fn = "message_layout_string"
    /\ Len(call.message.signals) = 2 /\ ~ DisjointSignals(call.message)
    /\ ret # None
    /\ \E r \in 1..Len(ByteRows(ret[1])) :
          /\ Count(ByteRows(ret[1])[r], "X") > 0
          /\ Count(ByteRows(ret[1])[r], "<") > 0

\* C28: an Action of n labels and n callbacks is a cyclic state machine:
\* an execution calls the callback of the current state and advances the
\* state modulo n; the text shown is always the label of the current
\* state; after every n executions the action is in its initial state.
C28_ActionCycles ==
    /\ [](\A key \in DOMAIN obj.actions :
             LET action == obj.actions[key]
             IN  /\ action.state_index \in 0..(action.n - 1)
                 /\ action.text = Label(key, action.state_index)
                 /\ action.executed % action.n = 0 =>
                        action.state_index = action.init)
    /\ [][\A key \in DOMAIN obj.actions :
             obj'.actions[key].executed = obj.actions[key].executed + 1 =>
                 /\ obj'.global_var = obj.actions[key].state_index + 1
                 /\ obj'.actions[key].state_index =
                        (obj.actions[key].state_index + 1) % obj.actions[key].n
                 /\ \A other \in DOMAIN obj.actions \ {key} :
                        obj'.actions[other] = obj.actions[other]]_vars

\* An action of three states, built in its second state, was executed
\* three times, the last time from its first state, and is in its second
\* state again, while the other action was not executed.
C28_Witness ==
    /\ "f1" \in DOMAIN obj.actions
    /\ obj.actions["f1"].n = 3 /\ obj.actions["f1"].init = 1
    /\ obj.actions["f1"].executed = 3
    /\ obj.actions["f1"].state_index = 1
    /\ obj.actions["f1"].text = Label("f1", 1)
    /\ obj.global_var = 1
    /\ obj.actions["f2"].executed = 0

\* C31: under fair scheduling, a started job that is not cancelled or
\* superseded and whose worker has terminated eventually has an entry in
\* the cache under its identifier, and the status of the coordinator is
\* then not Running on its behalf.
C31_TerminatedJobCommitted ==
    \A j \in Jobs : \A id \in Identifiers :
        (/\ thread[j] = "started" /\ jobData[j] # None
         /\ jobData[j][1].identifier = id
         /\ proc[j] = "dead" /\ fate[j] = "none")
          ~> (\/ id \in DOMAIN result_cache
              \/ thread[j] = "started" /\ fate[j] # "none")

\* C32: a focus call records its frames as the current data whether or
\* not it starts a job, and the job that a rerun starts is given the
\* current data, the frames of the most recent focus call.
C32_RerunUsesLatestSnapshot ==
    [][/\ \A id \in Identifiers, pkts \in PacketLists :
             update_packets_CAN(id, pkts) => current_data' = <<Data(id, pkts)>>
       /\ (nJobs' = nJobs + 1 /\ origin'[nJobs'] = "rerun") =>
             /\ jobData'[nJobs'] = current_data
             /\ current_data' = current_data]_vars

\* A rerun has started a job on frames that differ from the frames of the
\* cache entry of the focused identifier: they are the frames of a focus
\* call that started no job.
C32_Witness ==
    \E j \in Jobs :
        /\ origin[j] = "rerun" /\ jobData[j] # None /\ current_data # None
        /\ jobData[j] = current_data
        /\ jobData[j][1].identifier \in DOMAIN result_cache
        /\ result_cache[jobData[j][1].identifier].packets
               # jobData[j][1].packets

\* C33: a save whose dump raises after the file was created leaves an
\* empty file at the path, and a save on a path with such a file, with
\* a message to save, fails because the file exists and leaves it empty.
C33_FailedDumpLeavesEmptyFile ==
    [][/\ (_save /\ notification' = "Saving failed: dump raised") =>
             \E save_path \in Paths :
                 files[save_path] = None /\ files'[save_path] = <<Blank>>
       /\ \A save_path \in Paths :
             (files[save_path] = <<Blank>> /\ save(save_path) /\ HasMessage) =>
                 /\ notification' = "Saving failed: file exists"
                 /\ files' = files]_vars

\* A save has failed because of the empty file that a failed dump left.
C33_Witness ==
    /\ notification = "Saving failed: file exists"
    /\ files[FreePath] = <<Blank>>
    /\ HasMessage

\* C34: the correlation considers at most the first 65536 bodies, and the
\* window length is max(min(n, 65536) \div 200, 64), which lies between 64
\* and 327.
C34_WindowLength ==
    (ret # None /\ call.fn = "convolution_length") =>
        LET n == call.n
            capped == IF n < 65536 THEN n ELSE 65536
        IN  /\ ret[1].shape = capped
            /\ ret[1].shape <= 65536
            /\ ret[1].convolution_length \in 64..327
            /\ \/ ret[1].convolution_length * 200 <= capped
               \/ ret[1].convolution_length = 64
            /\ capped < (ret[1].convolution_length + 1) * 200

\* More than 65536 bodies were handed in and the window is the longest one.
C34_Witness ==
    /\ ret # None
    /\ call.fn = "convolution_length"
    /\ call.n > 65536
    /\ ret[1].convolution_length = 327
    /\ ret[1].shape = 65536

\* C35: a payload of at most 8 bytes is packed into the unsigned 64-bit
\* integer sum(byte[i] * 256^i), whatever the declared length of the
\* frame, so that appending zero bytes to a payload does not change the
\* integer.
C35_PayloadPacking ==
    (ret # None /\ call.fn = "body" /\ Len(call.packet.data) <= 8) =>
        LET data == call.packet.data
            byte(i) == IF i + 1 <= Len(data) THEN data[i + 1] ELSE 0
        IN  /\ ~ret[1].error
            /\ \A k \in 0..3 :
                  ret[1].value[k + 1] = byte(2 * k) + 256 * byte(2 * k + 1)
            /\ Len(data) <= 3 =>
                  /\ ret[1].value[1] + 65536 * ret[1].value[2]
                         = byte(0) + 256 * byte(1) + 65536 * byte(2)
                  /\ ret[1].value[3] = 0
                  /\ ret[1].value[4] = 0
            /\ \A length \in 0..8 :
                  body([data |-> data, length |-> length]) = ret[1]
            /\ \A zeros \in 0..(8 - Len(data)) :
                  body([data |-> data \o [i \in 1..zeros |-> 0],
                        length |-> call.packet.length]) = ret[1]

\* A payload of fewer than 8 bytes that ends in a byte other than zero
\* was packed for a frame that declares 8 bytes.
C35_Witness ==
    /\ ret # None
    /\ call.fn = "body"
    /\ Len(call.packet.data) \in 1..7
    /\ call.packet.data[Len(call.packet.data)] = 255
    /\ call.packet.data[1] = 1
    /\ call.packet.length = 8
    /\ ret[1].value[1] % 256 = 1

\* C36: the layout with a highlighted letter, every '=' replaced by '-',
\* is the layout without highlight; the layout without highlight, and the
\* layout with the letter of no signal highlighted, contain no '='.
C36_HighlightOnlyFills ==
    (ret # None /\ call.fn = "message_layout_string") =>
        LET message == call.message
            plain(layout) ==
                [i \in 1..Len(layout) |->
                    IF layout[i] = "=" THEN "-" ELSE layout[i]]
        IN  /\ call.highlight # NoHighlight =>
                  /\ plain(ret[1]) = message_layout_string(message, NoHighlight)
                  /\ Len(message.signals) = 0 => Count(ret[1], "=") = 0
            /\ call.highlight = NoHighlight =>
                  /\ Count(ret[1], "=") = 0
                  /\ Bind(message_layout_string(message, "b"), LAMBDA other :
                        /\ plain(other) = ret[1]
                        /\ Len(message.signals) < 2 => Count(other, "=") = 0)

\* The layout of a message with two signals was returned with the first
\* one highlighted: it shows '=' and the letter of the other signal.
C36_Witness ==
    /\ ret # None
    /\ call.fn = "message_layout_string"
    /\ call.highlight = "a"
    /\ Len(call.message.signals) = 2
    /\ Count(ret[1], "=") > 0
    /\ Count(ret[1], "-") > 0
    /\ Count(ret[1], "b") > 0

\* C39: the text of a DecimalEdit is always empty, "-" or a decimal
\* number, and a keypress whose text would not parse leaves the text and
\* the cursor as they were and emits nothing.
C39_TextAlwaysParses ==
    /\ [](\/ obj.edit_text = <<>>
          \/ obj.edit_text = <<"-">>
          \/ ~InvalidOperation(obj.edit_text))
    /\ [][\A key \in {"0", "1", ".", "-", "backspace", "delete"} :
             LET after == Edit_keypress(obj, key).edit_text
             IN  (/\ DecimalEdit_keypress(key)
                  /\ after \notin {<<>>, <<"-">>}
                  /\ InvalidOperation(after)) =>
                     /\ obj'.edit_text = obj.edit_text
                     /\ obj'.edit_pos = obj.edit_pos
                     /\ obj'.outcome = "restored"]_vars

\* A second point was typed at the end of a number and refused: the text
\* and the cursor are those of before.
C39_Witness ==
    /\ obj.edit_text = <<".", "1">>
    /\ obj.edit_pos = 2
    /\ obj.outcome = "restored"

\* C37: an edit operation that changes the signal refreshes the message
\* strictly once and emits 'message_updated' once in the same operation;
\* no operation emits without a refresh.
C37_EditRevalidates ==
    [][/\ obj'.signal # obj.signal =>
             obj'.refreshed = 1 /\ obj'.message_updated = 1
       /\ obj'.message_updated = obj'.refreshed]_vars

\* The unit of the signal has been set by the operation that ran last,
\* with one refresh and one notification.
C37_Witness ==
    /\ obj.signal.unit = <<<<"m">>>>
    /\ obj.signal.is_float
    /\ obj.signal.decimal.minimum # None
    /\ obj.refreshed = 1
    /\ obj.message_updated = 1

\* C38 as stated: the stored bounds of the signal, the Decimal ones and
\* the float ones, are ordered strictly whenever both are defined.
C38_StoredBoundsOrdered ==
    LET less(a, b) == \/ a.whole < b.whole
                      \/ a.whole = b.whole /\ a.eps < b.eps
        signal == obj.signal
    IN  /\ \/ signal.decimal.minimum = None
           \/ signal.decimal.maximum = None
           \/ less(signal.decimal.minimum[1], signal.decimal.maximum[1])
        /\ \/ signal.minimum = None
           \/ signal.maximum = None
           \/ less(signal.minimum[1], signal.maximum[1])

\* C38, amended: the Decimal bounds of the signal are ordered strictly
\* whenever both are defined; the float bounds are the doubles nearest to
\* them and are never in the reverse order; an edit of a bound field
\* whose values are both defined and not ordered strictly changes nothing
\* of the signal.
C38_DecimalBoundsOrdered ==
    /\ [](LET signal == obj.signal
              less(a, b) == \/ a.whole < b.whole
                            \/ a.whole = b.whole /\ a.eps < b.eps
              float_of(bound) ==
                  IF bound = None THEN None ELSE <<float(bound[1])>>
          IN  /\ \/ signal.decimal.minimum = None
                 \/ signal.decimal.maximum = None
                 \/ less(signal.decimal.minimum[1], signal.decimal.maximum[1])
              /\ signal.minimum = float_of(signal.decimal.minimum)
              /\ signal.maximum = float_of(signal.decimal.maximum)
              /\ \/ signal.minimum = None
                 \/ signal.maximum = None
                 \/ ~less(signal.maximum[1], signal.minimum[1]))
    /\ [][\A edit \in {"minimum", "maximum"} :
          \A edit_text \in {"", "-", "1", "1.00000000000000002", "2"} :
             LET minimum == value(IF edit = "minimum" THEN edit_text
                                  ELSE obj.minimum_edit, None)
                 maximum == value(IF edit = "maximum" THEN edit_text
                                  ELSE obj.maximum_edit, None)
             IN  (/\ _update_signal_bounds(edit, edit_text)
                  /\ minimum # None
                  /\ maximum # None
                  /\ \/ maximum[1].whole < minimum[1].whole
                     \/ /\ maximum[1].whole = minimum[1].whole
                        /\ maximum[1].eps <= minimum[1].eps) =>
                     /\ obj'.signal = obj.signal
                     /\ obj'.refreshed = 0]_vars

\* The minimum field holds 2 and the maximum field 1 after an edit that
\* was not stored: the bounds of the signal are still 1 and 2.
C38_Witness ==
    /\ obj.minimum_edit = "2"
    /\ obj.maximum_edit = "1"
    /\ obj.signal.decimal.minimum = <<Decimal("1")>>
    /\ obj.signal.decimal.maximum = <<Decimal("2")>>
    /\ obj.refreshed = 0

\* C40: for frames of one length, bit_flips_for_correlation returns for
\* each bit position p a series whose entry j is 1 if bit p differs
\* between frame j and frame j + 1 and 0 otherwise.
C40_IndependentSeries ==
    (/\ ret # None
     /\ call.fn = "bit_flips_for_correlation"
     /\ \A idx \in 1..call.nr_messages :
           Len(call.all_data_in_bits[idx]) = call.length_payload) =>
        /\ ret[1] # None
        /\ Len(ret[1][1]) = call.length_payload
        /\ \A p \in 1..call.length_payload :
              /\ Len(ret[1][1][p]) = call.nr_messages - 1
              /\ \A j \in 1..(call.nr_messages - 1) :
                    ret[1][1][p][j] =
                        IF call.all_data_in_bits[j][p]
                               # call.all_data_in_bits[j + 1][p]
                        THEN 1 ELSE 0
====
